---- MODULE Spec2Model ----
(***************************************************************************)
(* Model of the BibleAquifer static-site build (src/src/build_site.py):    *)
(* main() -> fetch_readme -> build_resource_data (fetch_repositories,      *)
(* fetch_languages, fetch_metadata, check_directory_exists, the per-       *)
(* language record extraction and the resource title rule) -> the three    *)
(* output files.  The upstream (GitHub API / raw.githubusercontent.com) is *)
(* the environment: every request is answered by a nondeterministic choice *)
(* among the answers the HTTP session can give.                            *)
(***************************************************************************)
EXTENDS Integers, Sequences, FiniteSets, TLC

\* ------------------------------------------------------------------ bounds
MaxRepos == 3      \* longest organisation listing the upstream serves
MaxLangs == 2      \* most language directories in one repository
MaxPage  == 3      \* last listing page on which a transport failure is injected
MaxIngredients == 3    \* most ingredients of a document handed to get_first_json_path
MaxArticles == 3   \* articles in the longest content file the page previews
MaxFetches == 2    \* most preview fetches in flight at one time

\* per_page of fetch_repositories (100 in the source), scaled so that full,
\* short and empty pages all occur within MaxRepos
PerPage == 2

\* --------------------------------------------------------- python values
None   == "<None>"        \* Python None / JSON null
Absent == "<absent>"      \* key not present in a JSON object
NoKey  == "<no key>"      \* key not present in the resource_data dict

Get(v) == IF v = Absent THEN None ELSE v                 \* dict.get(k)
GetDefault(v, d) == IF v = Absent THEN d ELSE v          \* dict.get(k, d)
Truthy(v) == v # None /\ v # ""                          \* bool(v) of str|None
Or(a, b) == IF Truthy(a) THEN a ELSE b                   \* a or b

\* ordered dict as a sequence of entries carrying their key
KeyOf(entry) == IF "code" \in DOMAIN entry THEN entry.code ELSE entry.name
DictHas(d, k) == \E i \in 1..Len(d) : KeyOf(d[i]) = k
DictGet(d, k) == d[CHOOSE i \in 1..Len(d) : KeyOf(d[i]) = k]
DictSet(d, v) ==
    IF DictHas(d, KeyOf(v))
    THEN [i \in 1..Len(d) |-> IF KeyOf(d[i]) = KeyOf(v) THEN v ELSE d[i]]
    ELSE Append(d, v)

\* ------------------------------------------------------------- constants
EXCLUDED_REPOS == {"docs", "ACAI", "bibleaquifer.github.io", ".github"}
FORMAT_NAMES == <<"json", "md", "pdf", "docx", "usx", "usfm", "audio">>
LANGUAGE_MAP == [eng |-> "English", spa |-> "Spanish", fra |-> "French", arb |-> "Arabic"]
get_language_name(code) == LANGUAGE_MAP[code]

\* ----------------------------------------------------- upstream universe
Langs == {"eng", "spa", "fra"}
RepoNames == <<"UWTranslationNotes", "docs", "FIAMaps", ".github", "ACAI">>

TitleOf == [eng |-> "English Title Here", spa |-> "Titulo en Espanol",
            fra |-> "Titre en Francais"]
AquiferNameOf == [eng |-> "Aquifer Name", spa |-> "Nombre Aquifer",
                  fra |-> "Nom Aquifer"]
NoticeOf == [eng |-> "Adapted from the original English version.",
             spa |-> "Adaptado de la version original.",
             fra |-> "Adapte de la version originale."]
LicenseNameOf == [eng |-> "CC BY-SA 4.0 license", spa |-> "Licencia CC BY-SA 4.0",
                  fra |-> "Licence CC BY-SA 4.0"]

\* one entry of the organisation listing
RepoEntry(n, arch) ==
    [name |-> n, archived |-> arch, description |-> <<"description of", n>>,
     html_url |-> <<"https://github.com/BibleAquifer", n>>]

\* the listings the upstream may hold: the first n names, at most one of them
\* archived
Listings(maxLen) ==
    UNION { { [i \in 1..n |-> RepoEntry(RepoNames[i], i = a)] : a \in 0..n }
            : n \in 0..maxLen }

Min(a, b) == IF a < b THEN a ELSE b

\* body of listing page p for per_page = PerPage
ListingPage(listing, p) ==
    SubSeq(listing, (p - 1) * PerPage + 1, Min(p * PerPage, Len(listing)))

\* --------------------------------------------------- metadata documents
\* first element of license_info.licenses: a mapping language code -> {name}
\* (is_dict) or some other JSON value
License(isDict, keys) == [is_dict |-> isDict, keys |-> keys]
NoLicenses == [present |-> FALSE, list |-> <<>>]

Doc(empty, hasRm, title, aq, notice, language, licenses, ingredients) ==
    [none |-> FALSE, empty |-> empty, has_rm |-> hasRm, title |-> title,
     aquifer_name |-> aq, adaptation_notice |-> notice, language |-> language,
     licenses |-> licenses, ingredients |-> ingredients]

NoneDoc == [none |-> TRUE, empty |-> FALSE, has_rm |-> FALSE, title |-> Absent,
            aquifer_name |-> Absent, adaptation_notice |-> Absent,
            language |-> Absent, licenses |-> NoLicenses, ingredients |-> <<>>]

EmptyDoc == Doc(TRUE, FALSE, Absent, Absent, Absent, Absent, NoLicenses, <<>>)

\* one entry of scripture_burrito.ingredients: path -> info; info is a mapping
\* (is_dict) with a mimeType and the keys of its `scope`, or another JSON value
Ingredient(path, mimeType, scope) ==
    [path |-> path, is_dict |-> TRUE, mimeType |-> mimeType, scope |-> scope]
BareIngredient(path) ==
    [path |-> path, is_dict |-> FALSE, mimeType |-> Absent, scope |-> <<>>]

\* the ingredient mappings a metadata document may carry, in document order
IngredientLists ==
    { <<>>,
      <<Ingredient("usfm/01-GEN.usfm", "text/x-usfm", <<>>)>>,
      <<Ingredient("json/001.content.json", "text/json", <<"a">>),
        Ingredient("json/002.content.json", "text/json", <<"b">>)>>,
      <<Ingredient("usfm/01-GEN.usfm", "text/x-usfm", <<>>),
        Ingredient("json/002.content.json", "text/json", <<"b">>),
        Ingredient("json/001.content.json", "text/json", <<"a">>)>>,
      <<Ingredient("audio/timing/01.json", "text/json", <<>>),
        Ingredient("json/001.content.json", "text/json", <<"a">>)>>,
      <<Ingredient("json/metadata.json", "text/json", <<>>)>>,
      <<BareIngredient("json/001.content.json"),
        Ingredient("json/002.content.json", "text/json", <<>>)>> }

LicenseChoices(lang) ==
    {NoLicenses, [present |-> TRUE, list |-> <<License(FALSE, {})>>]}
    \cup { [present |-> TRUE, list |-> <<License(TRUE, K)>>] : K \in SUBSET {lang, "eng"} }

\* the documents <lang>/metadata.json may hold, per exploration profile
Docs(profile, lang) ==
    CASE profile = "pipeline" ->
           {EmptyDoc, Doc(FALSE, TRUE, TitleOf[lang], Absent, Absent, lang, NoLicenses, <<>>)}
      [] profile = "title" ->
           { Doc(FALSE, TRUE, t, a, Absent, lang, NoLicenses, <<>>) :
               t \in {Absent, "", TitleOf[lang]}, a \in {Absent, AquiferNameOf[lang]} }
           \cup {Doc(FALSE, FALSE, Absent, Absent, Absent, Absent, NoLicenses, <<>>)}
      [] profile = "notice" ->
           { Doc(FALSE, TRUE, TitleOf[lang], Absent, n, lang, NoLicenses, <<>>) :
               n \in {Absent, "", NoticeOf[lang]} }
           \cup {EmptyDoc, Doc(FALSE, FALSE, Absent, Absent, Absent, Absent, NoLicenses, <<>>)}
      [] profile = "license" ->
           { Doc(FALSE, TRUE, TitleOf[lang], Absent, Absent, l, lic, <<>>) :
               l \in {Absent, lang}, lic \in LicenseChoices(lang) }
      [] profile = "untitled" ->
           {Doc(FALSE, TRUE, TitleOf[lang], Absent, Absent, lang, NoLicenses, <<>>),
            Doc(FALSE, TRUE, Absent, Absent, Absent, lang, NoLicenses, <<>>)}
      [] profile = "ingredients" ->
           { Doc(FALSE, TRUE, TitleOf[lang], Absent, Absent, lang, NoLicenses, ing) :
               ing \in IngredientLists }

\* what session.get + response.json() can give for a metadata request
Answer(kind, status, doc) == [kind |-> kind, status |-> status, doc |-> doc]
MetaAnswers(profile, lang) ==
    {Answer("raised", 0, NoneDoc), Answer("response", 404, NoneDoc),
     Answer("badjson", 200, NoneDoc)}
    \cup { Answer("response", 200, d) : d \in Docs(profile, lang) }


\* the format directories that exist under <repo>/<lang>/
FormatDirs(lang) == IF lang = "eng" THEN {"json", "md", "pdf"} ELSE {"json"}

\* the directory listings GET /repos/<org>/<repo>/contents may return:
\* a README file, up to MaxLangs distinct language directories in any order,
\* and a directory whose name is not a 3-letter code
NameLen(n) == CASE n \in Langs -> 3 [] n = "README.md" -> 9 [] n = "img" -> 3
                [] OTHER -> 6
Item(n, t) == [name |-> n, type |-> t]
\* the language directories a repository may have, per exploration profile
LangsOf(profile) == IF profile \in {"pipeline", "untitled"} THEN {"eng", "spa"} ELSE Langs
LangOrders(profile) ==
    UNION { { s \in [1..n -> LangsOf(profile)] : \A i, j \in 1..n : i # j => s[i] # s[j] }
            : n \in 0..MaxLangs }
Contents(order) ==
    <<Item("README.md", "file"), Item("img", "file")>>
    \o [i \in 1..Len(order) |-> Item(order[i], "dir")]
    \o <<Item("assets", "dir")>>

\* ------------------------------------------------------------------ state
VARIABLES
    token,            \* GITHUB_TOKEN is set
    profile,          \* which family of metadata documents the upstream holds
    upstream,         \* the organisation's repository listing
    pc,               \* position of main()
    page,             \* fetch_repositories: page
    response,         \* fetch_repositories: the local `response`
    all_repos,        \* fetch_repositories: all_repos
    repositories,     \* build_resource_data: repositories
    repo_i,           \* build_resource_data: index of `repo` in repositories
    languages,        \* build_resource_data: languages
    lang_i,           \* build_resource_data: index of `lang` in languages
    english_metadata, \* build_resource_data: english_metadata
    resource_data,    \* build_resource_data: resource_data
    resources,        \* build_resource_data: resources (ordered dict)
    written,          \* output files written so far
    error,            \* the exception that ended the run, if any
    console,          \* error messages printed so far
    requests,         \* HTTP requests issued so far, in order
    served,           \* upstream: the metadata answers given so far, by <<repo, lang>>
    listed,           \* upstream: the directory listings given so far, by repo
    raw_label,        \* transform_label: argument raw_label
    order_policy,     \* transform_label: argument order_policy
    language_code,    \* transform_label: argument language_code
    label,            \* transform_label: the value returned
    nav_metadata,     \* the metadata documents of the sample resource, by language
    nav_resources,    \* the resource map with json_files, as built from them
    catalog_resources,\* get_catalog_resources: the value returned
    nav_files,        \* generate_nav_files: the files under nav/
    nav_done,         \* which of these calls have returned
    json_metadata,    \* get_first_json_path: argument metadata
    json_path         \* get_first_json_path: the value returned

\* ------------------------------------------ the catalog page's state
null == "<null>"                          \* JavaScript null
Falsy(v) == v \in {null, None, ""}        \* !v of a string or null

\* let currentArticles = []
NoArticles == [of |-> <<>>, n |-> 0]

\* innerHTML of #preview-display and of #content-display
Message(kind) == [kind |-> kind, of |-> <<>>, index |-> 0]
NoContent == [kind |-> "", of |-> <<>>]

VARIABLES
    selectedResource,     \* let selectedResource (by resource id)
    selectedLanguage,     \* let selectedLanguage
    previewCache,         \* let previewCache: the cache keys it holds
    currentArticleIndex,  \* let currentArticleIndex
    currentArticles,      \* let currentArticles
    resourceSelect,       \* #resource-select: its value
    languageSelect,       \* #language-select: options, value, disabled
    contentDisplayDiv,    \* #content-display
    contentViewerSection, \* #content-viewer: has class hidden
    previewDisplayDiv,    \* #preview-display
    activeTab,            \* the tab with class active
    prevArticleBtn,       \* #prev-article-btn: disabled
    nextArticleBtn,       \* #next-article-btn: disabled
    articlePositionSpan,  \* #article-position
    fetches               \* loadPreview calls waiting at `await fetch(url)`

catalogVars == <<selectedResource, selectedLanguage, previewCache, currentArticleIndex,
                 currentArticles, resourceSelect, languageSelect, contentDisplayDiv,
                 contentViewerSection, previewDisplayDiv, activeTab, prevArticleBtn,
                 nextArticleBtn, articlePositionSpan, fetches>>

\* the page as loaded: the script's `let` initialisers and the static HTML
PageLoaded ==
    /\ selectedResource = null
    /\ selectedLanguage = null
    /\ previewCache = {}
    /\ currentArticleIndex = 0
    /\ currentArticles = NoArticles
    /\ resourceSelect = ""
    /\ languageSelect = [options |-> <<"">>, value |-> "", disabled |-> FALSE]
    /\ contentDisplayDiv = NoContent
    /\ contentViewerSection = "hidden"
    /\ previewDisplayDiv = Message("Select a resource to see a preview.")
    /\ activeTab = "details"
    /\ prevArticleBtn = "disabled"
    /\ nextArticleBtn = "disabled"
    /\ articlePositionSpan = <<>>
    /\ fetches = <<>>


\* the variables of the build run by main()
buildVars == <<token, profile, upstream, pc, page, response, all_repos, repositories,
               repo_i, languages, lang_i, english_metadata, resource_data, resources,
               written, error, console, requests, served, listed>>

\* the variables of the helper functions called on their own
callVars == <<raw_label, order_policy, language_code, label,
              nav_metadata, nav_resources, catalog_resources, nav_files, nav_done>>

\* the variables of a call of get_first_json_path on its own
pathVars == <<json_metadata, json_path>>

vars == <<buildVars, callVars, pathVars, catalogVars>>

Unbound == [status |-> 0, body |-> <<>>]      \* `response` not assigned yet
NoError == [exc |-> "none", where |-> "none"]
NoResource == [name |-> "", description |-> <<>>, url |-> <<>>, languages |-> <<>>,
               title |-> NoKey, temp_title |-> NoKey]

Req(kind, repo, lang, what) == <<kind, repo, lang, what>>
Msg(text, repo, lang) == <<text, repo, lang>>

\* a helper function has not returned / has not been called
NotReturned == "<not returned>"
NoCalls ==
    /\ raw_label = ""
    /\ order_policy = ""
    /\ language_code = ""
    /\ label = NotReturned
    /\ nav_metadata = <<>>
    /\ nav_resources = <<>>
    /\ catalog_resources = <<>>
    /\ nav_files = {}
    /\ nav_done = {}
    /\ json_metadata = NoneDoc
    /\ json_path = NotReturned

\* main() at its entry, nothing fetched yet
MainEntry ==
    /\ pc = "main"
    /\ page = 1
    /\ response = Unbound
    /\ all_repos = <<>>
    /\ repositories = <<>>
    /\ repo_i = 1
    /\ languages = <<>>
    /\ lang_i = 1
    /\ english_metadata = NoneDoc
    /\ resource_data = NoResource
    /\ resources = <<>>
    /\ written = {}
    /\ error = NoError
    /\ console = {}
    /\ requests = <<>>
    /\ served = <<>>
    /\ listed = <<>>

InitWith(profiles, listings) ==
    /\ token \in BOOLEAN
    /\ profile \in profiles
    /\ upstream \in listings
    /\ MainEntry
    /\ NoCalls
    /\ PageLoaded

\* the listings of the runs that explore one repository's documents in depth
OneRepoListings == { <<RepoEntry(RepoNames[1], FALSE)>> }

Init == InitWith({"pipeline"}, Listings(MaxRepos))

\* an exception propagates out of main(): nothing catches it
Raise(exc, where) ==
    /\ pc' = "raised"
    /\ error' = [exc |-> exc, where |-> where]

\* ------------------------------------------------------------------ main
\* the build goes on without a token
CheckTokenIgnored ==
    /\ pc = "main"
    /\ pc' = "fetch_readme"
    /\ error' = error
    /\ UNCHANGED <<callVars, pathVars, catalogVars, token, profile, upstream, page, response, all_repos, repositories,
                   repo_i, languages, lang_i, english_metadata, resource_data,
                   resources, written, console, requests, served, listed>>

\* main(): the token gate
CheckToken ==
    /\ pc = "main"
    /\ pc' = IF token THEN "fetch_readme" ELSE "exit"
    /\ error' = IF token THEN error ELSE [exc |-> "SystemExit(1)", where |-> "main"]
    /\ UNCHANGED <<callVars, pathVars, catalogVars, token, profile, upstream, page, response, all_repos, repositories,
                   repo_i, languages, lang_i, english_metadata, resource_data,
                   resources, written, console, requests, served, listed>>

\* fetch_readme(): a transport failure leaves `response` unbound
FetchReadme ==
    /\ pc = "fetch_readme"
    /\ requests' = Append(requests, Req("readme", "", "", ""))
    /\ \E ans \in {"raised", "error_status", "ok"} :
         /\ console' = IF ans = "ok" THEN console
                       ELSE console \cup {Msg("Error fetching README.md", "", "")}
         /\ IF ans = "raised"
            THEN Raise("UnboundLocalError", "fetch_readme")
            ELSE pc' = "fetch_repositories" /\ error' = error
    /\ UNCHANGED <<callVars, pathVars, catalogVars, token, profile, upstream, page, response, all_repos, repositories,
                   repo_i, languages, lang_i, english_metadata, resource_data,
                   resources, written, served, listed>>


\* --------------------------------------------------- fetch_repositories
\* the filter without its `not repo.get('archived', False)` conjunct
FilterReposKeepArchived(all) ==
    LET kept == SelectSeq(all, LAMBDA repo : repo.name \notin EXCLUDED_REPOS)
    IN [i \in 1..Len(kept) |-> [name |-> kept[i].name, description |-> kept[i].description,
                                url |-> kept[i].html_url]]

\* the return value: name/description/url of every entry that is neither
\* excluded nor archived, in all_repos order
FilterRepos(all) ==
    LET kept == SelectSeq(all, LAMBDA repo : repo.name \notin EXCLUDED_REPOS /\ ~repo.archived)
    IN [i \in 1..Len(kept) |-> [name |-> kept[i].name, description |-> kept[i].description,
                                url |-> kept[i].html_url]]

\* check_rate_limit(): GET /rate_limit, an optional sleep, then `return headers`,
\* a name the function never binds; a transport failure leaves its own
\* `response` unbound
check_rate_limit(ans) ==
    IF ans = "raised" THEN "UnboundLocalError" ELSE "NameError"

\* what GET /rate_limit can give: the session raises, a status other than 200,
\* or the remaining calls and the time left until the reset
RateLimitAnswers ==
    {[kind |-> "raised", remaining |-> 0, wait_time |-> 0],
     [kind |-> "error_status", remaining |-> 0, wait_time |-> 0]}
    \cup {[kind |-> "ok", remaining |-> r, wait_time |-> w] :
             r \in {5, 50}, w \in {0, 60, 4000}}

\* what check_rate_limit prints; "Waiting" is followed by time.sleep
RateLimitPrints(rl) ==
    (IF rl.kind # "ok" THEN {Msg("Error checking rate limit", "", "")} ELSE {})
    \cup (IF rl.kind = "ok" /\ rl.remaining < 10
          THEN {Msg("WARNING: few API calls remaining", "", "")} ELSE {})
    \cup (IF rl.kind = "ok" /\ rl.remaining < 10 /\ rl.wait_time > 0 /\ rl.wait_time < 3600
          THEN {Msg("Waiting for rate limit reset", "", "")} ELSE {})

\* one iteration of the `while True` loop of fetch_repositories; on `break`
\* the filtered list is returned to build_resource_data
FetchRepositoriesPage ==
    /\ pc = "fetch_repositories"
    /\ \E ans \in {"raised", "ok", "forbidden", "error_status"}, rl \in RateLimitAnswers :
         \* a transport failure is only injected up to page MaxPage
         /\ ans = "raised" => page <= MaxPage
         /\ LET resp == CASE ans = "raised" -> response
                          [] ans = "ok" -> [status |-> 200, body |-> ListingPage(upstream, page)]
                          [] ans = "forbidden" -> [status |-> 403, body |-> <<>>]
                          [] ans = "error_status" -> [status |-> 404, body |-> <<>>]
                repos == resp.body
                more == repos # <<>> /\ Len(repos) >= PerPage
                all == all_repos \o repos
            IN /\ console' = (IF ans = "ok" THEN console
                              ELSE console \cup {Msg("Error retrieving repositories", "", "")})
                             \cup (IF resp.status = 403 THEN RateLimitPrints(rl) ELSE {})
               /\ IF resp.status = 0
                  THEN /\ Raise("UnboundLocalError", "fetch_repositories")
                       /\ requests' = Append(requests, Req("repos", "", "", ToString(page)))
                       /\ UNCHANGED <<page, response, all_repos, repositories>>
                  ELSE IF resp.status = 403
                  THEN /\ Raise(check_rate_limit(rl.kind), "check_rate_limit")
                       /\ requests' = requests \o <<Req("repos", "", "", ToString(page)),
                                                    Req("rate_limit", "", "", "")>>
                       /\ response' = resp
                       /\ UNCHANGED <<page, all_repos, repositories>>
                  ELSE IF resp.status # 200
                  THEN /\ Raise("HTTPError", "fetch_repositories")
                       /\ requests' = Append(requests, Req("repos", "", "", ToString(page)))
                       /\ response' = resp
                       /\ UNCHANGED <<page, all_repos, repositories>>
                  ELSE /\ requests' = Append(requests, Req("repos", "", "", ToString(page)))
                       /\ response' = resp
                       /\ all_repos' = all
                       /\ page' = IF more THEN page + 1 ELSE page
                       /\ repositories' = IF more THEN repositories ELSE FilterRepos(all)
                       /\ pc' = IF more THEN pc ELSE "next_repo"
                       /\ error' = error
    /\ UNCHANGED <<callVars, pathVars, catalogVars, token, profile, upstream, repo_i, languages, lang_i,
                   english_metadata, resource_data, resources, written, served, listed>>

\* ------------------------------------------------------ fetch_languages
\* directories whose name has three characters
LanguageDirs(contents) ==
    LET dirs == SelectSeq(contents, LAMBDA item : item.type = "dir" /\ NameLen(item.name) = 3)
    IN [i \in 1..Len(dirs) |-> dirs[i].name]

\* what GET /repos/<org>/<repo>/contents can give: the session raises, or the
\* upstream's answer for that repository, the same on every request
Listing(status, order) == [status |-> status, order |-> order]
ContentsAnswers(repo_name) ==
    {Listing("raised", <<>>)} \cup
    (IF repo_name \in DOMAIN listed THEN {listed[repo_name]}
     ELSE {Listing("error_status", <<>>)} \cup {Listing("ok", o) : o \in LangOrders(profile)})

\* top of `for repo in repositories`: fetch_languages(repo_name), `continue`
\* when there are none, else a fresh resource_data; past the last repository
\* build_resource_data returns
NextRepo ==
    /\ pc = "next_repo"
    /\ IF repo_i > Len(repositories)
       THEN /\ pc' = "save_yaml"
            /\ UNCHANGED <<repo_i, languages, lang_i, resource_data, error, console,
                           requests, listed>>
       ELSE LET repo_name == repositories[repo_i].name IN
            /\ requests' = Append(requests, Req("contents", repo_name, "", ""))
            /\ \E ans \in ContentsAnswers(repo_name) :
                 LET failed == ans.status # "ok"
                     langs == IF failed THEN <<>> ELSE LanguageDirs(Contents(ans.order))
                 IN /\ console' = IF failed
                                  THEN console \cup {Msg("Error retrieving repository languages", repo_name, "")}
                                  ELSE console
                    /\ listed' = IF ans.status = "raised" THEN listed
                                 ELSE (repo_name :> ans) @@ listed
                    /\ IF ans.status = "raised"
                       THEN /\ Raise("UnboundLocalError", "fetch_languages")
                            /\ UNCHANGED <<repo_i, languages, lang_i, resource_data>>
                       ELSE IF langs = <<>>
                       THEN /\ repo_i' = repo_i + 1
                            /\ UNCHANGED <<pc, error, languages, lang_i, resource_data>>
                       ELSE /\ languages' = langs
                            /\ lang_i' = 1
                            /\ resource_data' = [name |-> repo_name,
                                                 description |-> repositories[repo_i].description,
                                                 url |-> repositories[repo_i].url,
                                                 languages |-> <<>>,
                                                 title |-> NoKey, temp_title |-> NoKey]
                            /\ pc' = "english_metadata"
                            /\ UNCHANGED <<repo_i, error>>
    /\ UNCHANGED <<callVars, pathVars, catalogVars, token, profile, upstream, page, response, all_repos, repositories,
                   english_metadata, resources, written, served>>

\* ------------------------------------------------------- fetch_metadata
\* fetch_metadata letting the HTTPError of raise_for_status escape
fetch_metadata_strict(ans) ==
    CASE ans.kind = "raised" -> [exc |-> "UnboundLocalError", value |-> NoneDoc]
      [] ans.kind = "response" /\ ans.status # 200 -> [exc |-> "HTTPError", value |-> NoneDoc]
      [] ans.kind = "badjson" -> [exc |-> "JSONDecodeError", value |-> NoneDoc]
      [] OTHER -> [exc |-> "none", value |-> ans.doc]

\* its outcome: "raised" when the session raises (the local `response` is then
\* unbound), "badjson" when response.json() raises, else the value returned
fetch_metadata(ans) ==
    CASE ans.kind = "raised" -> [exc |-> "UnboundLocalError", value |-> NoneDoc]
      [] ans.kind = "response" /\ ans.status # 200 -> [exc |-> "none", value |-> NoneDoc]
      [] ans.kind = "badjson" -> [exc |-> "JSONDecodeError", value |-> NoneDoc]
      [] OTHER -> [exc |-> "none", value |-> ans.doc]

\* raise_for_status or the session raised: the except clause prints
MetadataErrorPrinted(ans) == ans.kind = "raised" \/ (ans.kind = "response" /\ ans.status # 200)

\* what GET <repo>/main/<lang>/metadata.json can give: the session raises, or
\* the upstream's answer for that file, the same on every request
MetadataAnswers(repo_name, lang) ==
    IF <<repo_name, lang>> \in DOMAIN served
    THEN {Answer("raised", 0, NoneDoc), served[<<repo_name, lang>>]}
    ELSE MetaAnswers(profile, lang)

Serve(repo_name, lang, ans) ==
    IF ans.kind = "raised" THEN served ELSE (<<repo_name, lang>> :> ans) @@ served

\* english_metadata = fetch_metadata(repo_name, "eng")
FetchEnglishMetadata ==
    /\ pc = "english_metadata"
    /\ LET repo_name == repositories[repo_i].name IN
       /\ requests' = Append(requests, Req("metadata", repo_name, "eng", ""))
       /\ \E ans \in MetadataAnswers(repo_name, "eng") :
            LET res == fetch_metadata(ans) IN
            /\ console' = IF MetadataErrorPrinted(ans)
                          THEN console \cup {Msg("Error retrieving metadata.json", repo_name, "eng")}
                          ELSE console
            /\ served' = Serve(repo_name, "eng", ans)
            /\ IF res.exc # "none"
               THEN Raise(res.exc, "fetch_metadata") /\ UNCHANGED english_metadata
               ELSE /\ english_metadata' = res.value
                    /\ pc' = "next_lang"
                    /\ error' = error
    /\ UNCHANGED <<callVars, pathVars, catalogVars, token, profile, upstream, page, response, all_repos, repositories,
                   repo_i, languages, lang_i, resource_data, resources, written, listed>>

\* ------------------------------------------- per-language record extraction
\* metadata.get('resource_metadata', {})
ResourceMeta(metadata) ==
    IF metadata.has_rm THEN metadata
    ELSE [metadata EXCEPT !.title = Absent, !.aquifer_name = Absent,
                          !.adaptation_notice = Absent, !.language = Absent,
                          !.licenses = NoLicenses]

\* `if metadata:` - None and {} are falsy
MetadataTruthy(metadata) == ~metadata.none /\ ~metadata.empty

\* every language titled the way English is
RecordTitleAsEnglish(lang, resource_meta, repo_name) ==
    Or(Get(resource_meta.title), repo_name)

\* the title of a language record
RecordTitle(lang, resource_meta, repo_name) ==
    IF lang = "eng"
    THEN Or(Get(resource_meta.title), repo_name)
    ELSE Or(Get(resource_meta.aquifer_name), Get(resource_meta.title))

\* no fallback to the English notice at all
NoticeNeverFallsBack(resource_meta, english) == FALSE

\* the English fallback is taken only for the empty string
NoticeFallsBack(resource_meta, english) ==
    Get(resource_meta.adaptation_notice) = "" /\ ~english.none

\* english_metadata["resource_metadata"] raises KeyError without that key
NoticeKeyError(resource_meta, english) ==
    NoticeFallsBack(resource_meta, english) /\ ~english.has_rm

AdaptationNotice(resource_meta, english) ==
    IF NoticeFallsBack(resource_meta, english)
    THEN Get(english.adaptation_notice)
    ELSE Get(resource_meta.adaptation_notice)

\* the license name without the fallback to the "eng" entry
LicenseNameNoEnglish(resource_meta) ==
    LET licenses == resource_meta.licenses.list
        lang_code == GetDefault(resource_meta.language, "eng")
    IN IF licenses = <<>> THEN None
       ELSE IF licenses[1].is_dict /\ lang_code \in licenses[1].keys
       THEN LicenseNameOf[lang_code]
       ELSE None

\* citation.license_name
LicenseName(resource_meta) ==
    LET licenses == resource_meta.licenses.list
        lang_code == GetDefault(resource_meta.language, "eng")
    IN IF licenses = <<>> THEN None
       ELSE LET first_license == licenses[1] IN
            IF first_license.is_dict /\ lang_code \in first_license.keys
            THEN LicenseNameOf[lang_code]
            ELSE IF first_license.is_dict /\ "eng" \in first_license.keys
            THEN LicenseNameOf["eng"]
            ELSE None

\* the first ingredient's path, whatever its mimeType
get_first_ingredient_path(metadata) ==
    IF ~MetadataTruthy(metadata) THEN None
    ELSE IF metadata.ingredients = <<>> THEN None ELSE metadata.ingredients[1].path

\* path of the first ingredient whose mimeType is text/json
get_first_json_path(metadata) ==
    IF ~MetadataTruthy(metadata) THEN None
    ELSE LET json == SelectSeq(metadata.ingredients,
                               LAMBDA info : info.is_dict /\ info.mimeType = "text/json")
         IN IF json = <<>> THEN None ELSE json[1].path

\* the dict stored under resource_data['languages'][lang]; the scalar
\* pass-through fields version, resource_type, content_type and the citation's
\* title and copyright are plain copies and are left out
LanguageRecord(repo_name, lang, metadata, english, dirs) ==
    LET resource_meta == ResourceMeta(metadata) IN
    [code |-> lang,
     name |-> get_language_name(lang),
     title |-> RecordTitle(lang, resource_meta, repo_name),
     language |-> Get(resource_meta.language),
     first_json_path |-> get_first_json_path(metadata),
     citation |-> [license_name |-> LicenseName(resource_meta),
                   adaptation_notice |-> AdaptationNotice(resource_meta, english)],
     has |-> [i \in 1..Len(FORMAT_NAMES) |-> FORMAT_NAMES[i] \in dirs]]

\* the first language with metadata settles the title, English or not
TitleSlotsFirstWins(rd, lang, title) ==
    IF rd.title # NoKey THEN rd ELSE [rd EXCEPT !.title = title]

\* every language with metadata writes the title slot
TitleSlotsLastWins(rd, lang, title) == [rd EXCEPT !.title = title]

\* "Set the resource title from English metadata if available, otherwise use
\* first language": the update at the end of the loop body
TitleSlots(rd, lang, title) ==
    IF rd.title # NoKey THEN rd
    ELSE IF lang = "eng" THEN [rd EXCEPT !.title = title]
    ELSE [rd EXCEPT !.temp_title = title]

\* the probes issued last format first
ProbeRequestsReversed(repo_name, lang, n) ==
    [i \in 1..n |-> Req("probe", repo_name, lang, FORMAT_NAMES[Len(FORMAT_NAMES) + 1 - i])]

\* the requests of the first n calls of check_directory_exists for one language
ProbeRequests(repo_name, lang, n) ==
    [i \in 1..n |-> Req("probe", repo_name, lang, FORMAT_NAMES[i])]

\* one iteration of `for lang in languages`
ProcessLanguage ==
    /\ pc = "next_lang"
    /\ lang_i <= Len(languages)
    /\ LET repo_name == repositories[repo_i].name
           lang == languages[lang_i]
           meta_req == Append(requests, Req("metadata", repo_name, lang, ""))
       IN \E ans \in MetadataAnswers(repo_name, lang) :
          LET res == fetch_metadata(ans)
              metadata == res.value
              resource_meta == ResourceMeta(metadata)
          IN /\ console' = IF MetadataErrorPrinted(ans)
                           THEN console \cup {Msg("Error retrieving metadata.json", repo_name, lang)}
                           ELSE console
             /\ served' = Serve(repo_name, lang, ans)
             /\ IF res.exc # "none"
                THEN /\ Raise(res.exc, "fetch_metadata")
                     /\ requests' = meta_req
                     /\ UNCHANGED <<lang_i, resource_data>>
                ELSE IF ~MetadataTruthy(metadata)
                THEN /\ lang_i' = lang_i + 1
                     /\ requests' = meta_req
                     /\ UNCHANGED <<pc, error, resource_data>>
                ELSE IF NoticeKeyError(resource_meta, english_metadata)
                THEN /\ Raise("KeyError", "build_resource_data")
                     /\ requests' = meta_req
                     /\ UNCHANGED <<lang_i, resource_data>>
                ELSE \E fail \in 0..Len(FORMAT_NAMES) :
                       IF fail > 0
                       THEN \* check_directory_exists: the session raises on probe `fail`
                            /\ Raise("UnboundLocalError", "check_directory_exists")
                            /\ requests' = meta_req \o ProbeRequests(repo_name, lang, fail)
                            /\ UNCHANGED <<lang_i, resource_data>>
                       ELSE LET rec == LanguageRecord(repo_name, lang, metadata,
                                                      english_metadata, FormatDirs(lang))
                                rd == [resource_data EXCEPT
                                         !.languages = DictSet(@, rec)]
                            IN /\ resource_data' = TitleSlots(rd, lang, rec.title)
                               /\ requests' = meta_req \o
                                    ProbeRequests(repo_name, lang, Len(FORMAT_NAMES))
                               /\ lang_i' = lang_i + 1
                               /\ UNCHANGED <<pc, error>>
    /\ UNCHANGED <<callVars, pathVars, catalogVars, token, profile, upstream, page, response, all_repos, repositories,
                   repo_i, languages, english_metadata, resources, written, listed>>

\* re.sub(r'([A-Z])', r' \1', repo_name).strip()
Humanize(repo_name) ==
    CASE repo_name = "UWTranslationNotes" -> "U W Translation Notes"
      [] repo_name = "FIAMaps" -> "F I A Maps"
      [] repo_name = "ACAI" -> "A C A I"
      [] OTHER -> repo_name

\* the block after the language loop without its `elif`: the temporary slot
\* is removed only when it is moved into the title
FinalResourceKeepTemp(rd) ==
    IF rd.title = NoKey
    THEN IF rd.temp_title # NoKey
         THEN [rd EXCEPT !.title = rd.temp_title, !.temp_title = NoKey]
         ELSE [rd EXCEPT !.title = Humanize(rd.name)]
    ELSE rd

\* the block after the language loop: the title is settled and the temporary
\* slot removed
FinalResource(rd) ==
    IF rd.title = NoKey
    THEN IF rd.temp_title # NoKey
         THEN [rd EXCEPT !.title = rd.temp_title, !.temp_title = NoKey]
         ELSE [rd EXCEPT !.title = Humanize(rd.name)]
    ELSE IF rd.temp_title # NoKey
         THEN [rd EXCEPT !.temp_title = NoKey]
         ELSE rd

\* a repository whose every language is without metadata is added all the same
AddResourceAlways(res, rd) == DictSet(res, FinalResource(rd))

\* "Only add resources that have at least one language with metadata"
AddResource(res, rd) ==
    IF rd.languages # <<>> THEN DictSet(res, FinalResource(rd)) ELSE res

\* after the last language of a repository
FinishRepo ==
    /\ pc = "next_lang"
    /\ lang_i > Len(languages)
    /\ resources' = AddResource(resources, resource_data)
    /\ repo_i' = repo_i + 1
    /\ pc' = "next_repo"
    /\ UNCHANGED <<callVars, pathVars, catalogVars, token, profile, upstream, page, response, all_repos, repositories,
                   languages, lang_i, english_metadata, resource_data, written,
                   error, console, requests, served, listed>>

\* ------------------------------------------------------------ the outputs
\* yaml.dump(resources) into resources_data.yaml
SaveYaml ==
    /\ pc = "save_yaml"
    /\ written' = written \cup {"resources_data.yaml"}
    /\ pc' = "index_html"
    /\ UNCHANGED <<callVars, pathVars, catalogVars, token, profile, upstream, page, response, all_repos, repositories,
                   repo_i, languages, lang_i, english_metadata, resource_data,
                   resources, error, console, requests, served, listed>>

WriteIndex ==
    /\ pc = "index_html"
    /\ written' = written \cup {"index.html"}
    /\ pc' = "catalog_html"
    /\ UNCHANGED <<callVars, pathVars, catalogVars, token, profile, upstream, page, response, all_repos, repositories,
                   repo_i, languages, lang_i, english_metadata, resource_data,
                   resources, error, console, requests, served, listed>>

\* str.lower() order of the titles a resource can have
TitleOrder == <<"", "Aquifer Name", "English Title Here", "F I A Maps", "FIAMaps",
                "Nom Aquifer", "Nombre Aquifer", "Titre en Francais",
                "Titulo en Espanol", "U W Translation Notes", "UWTranslationNotes">>
TitleRank(t) == CHOOSE i \in 1..Len(TitleOrder) : TitleOrder[i] = t

\* resources.items() | sort(attribute='1.title'): a stable sort
RECURSIVE SortByTitle(_)
SortByTitle(items) ==
    IF items = <<>> THEN <<>>
    ELSE LET rest == SortByTitle(SubSeq(items, 1, Len(items) - 1))
             x == items[Len(items)]
             before == SelectSeq(rest, LAMBDA y : TitleRank(y.title) <= TitleRank(x.title))
             after == SelectSeq(rest, LAMBDA y : TitleRank(y.title) > TitleRank(x.title))
         IN before \o <<x>> \o after

\* comparing None with anything is a TypeError in sorted()
SortRaises(items) == Len(items) >= 2 /\ \E i \in 1..Len(items) : items[i].title = None

\* the <option> elements of #resource-select
ResourceOptions(res) ==
    LET sorted == SortByTitle(res)
    IN [i \in 1..Len(sorted) |-> [value |-> sorted[i].name, text |-> sorted[i].title]]

NotRendered == [rendered |-> FALSE, options |-> <<>>, resources_json |-> <<>>]

\* what generate_catalog_html puts into catalog.html
generate_catalog_html(res) ==
    [rendered |-> TRUE, options |-> ResourceOptions(res), resources_json |-> res]

\* the catalog.html written by this run
catalog_html ==
    IF "catalog.html" \in written THEN generate_catalog_html(resources) ELSE NotRendered

\* a failure of the rendering is swallowed and the run goes on to its report
WriteCatalogSwallow ==
    /\ pc = "catalog_html"
    /\ written' = IF SortRaises(resources) THEN written ELSE written \cup {"catalog.html"}
    /\ pc' = "report"
    /\ error' = error
    /\ UNCHANGED <<callVars, pathVars, catalogVars, token, profile, upstream, page, response, all_repos, repositories,
                   repo_i, languages, lang_i, english_metadata, resource_data,
                   resources, console, requests, served, listed>>

\* catalog_html = generate_catalog_html(resources), written to catalog.html
WriteCatalog ==
    /\ pc = "catalog_html"
    /\ IF SortRaises(resources)
       THEN Raise("TypeError", "generate_catalog_html") /\ UNCHANGED written
       ELSE /\ written' = written \cup {"catalog.html"}
            /\ pc' = "report"
            /\ error' = error
    /\ UNCHANGED <<callVars, pathVars, catalogVars, token, profile, upstream, page, response, all_repos, repositories,
                   repo_i, languages, lang_i, english_metadata, resource_data,
                   resources, console, requests, served, listed>>

\* print("Build complete!")
Report ==
    /\ pc = "report"
    /\ pc' = "done"
    /\ console' = console \cup {Msg("Build complete!", "", "")}
    /\ UNCHANGED <<callVars, pathVars, catalogVars, token, profile, upstream, page, response, all_repos, repositories,
                   repo_i, languages, lang_i, english_metadata, resource_data,
                   resources, written, error, requests, served, listed>>

Next ==
    \/ CheckToken
    \/ FetchReadme
    \/ FetchRepositoriesPage
    \/ NextRepo
    \/ FetchEnglishMetadata
    \/ ProcessLanguage
    \/ FinishRepo
    \/ SaveYaml
    \/ WriteIndex
    \/ WriteCatalog
    \/ Report

Spec == Init /\ [][Next]_vars

\* one repository, its documents varying in the title fields
InitTitle == InitWith({"title"}, OneRepoListings)
SpecTitle == InitTitle /\ [][Next]_vars

\* one repository, its documents varying in the adaptation notice
InitNotice == InitWith({"notice"}, OneRepoListings)
SpecNotice == InitNotice /\ [][Next]_vars

\* one repository, its documents varying in language and licenses
InitLicense == InitWith({"license"}, OneRepoListings)
SpecLicense == InitLicense /\ [][Next]_vars

\* two repositories, their documents with or without a title
TwoRepoListings == { <<RepoEntry(RepoNames[1], FALSE), RepoEntry(RepoNames[3], FALSE)>> }
InitOutputs == InitWith({"untitled"}, TwoRepoListings)
SpecOutputs == InitOutputs /\ [][Next]_vars

\* one repository, its documents varying in their ingredients
InitIngredients == InitWith({"ingredients"}, OneRepoListings)
SpecIngredients == InitIngredients /\ [][Next]_vars


\* ===================================================================
\* Properties
\* ===================================================================
Range(seq) == {seq[i] : i \in 1..Len(seq)}

\* build_resource_data has returned its map
BuildReturned == pc \in {"save_yaml", "index_html", "catalog_html", "report", "done"}

\* the language records held anywhere: in the final map and in the resource
\* under construction
HeldResources == Range(resources) \cup
    (IF pc \in {"english_metadata", "next_lang"} THEN {resource_data} ELSE {})

HasEnglish(res) == DictHas(res.languages, "eng")
EnglishRecord(res) == DictGet(res.languages, "eng")

\* the document the upstream served for <repo>/<lang>/metadata.json
ServedOk(r, l) ==
    /\ <<r, l>> \in DOMAIN served
    /\ served[<<r, l>>].kind = "response"
    /\ served[<<r, l>>].status = 200
ServedDoc(r, l) == served[<<r, l>>].doc
ServedNotFound(r, l) ==
    /\ <<r, l>> \in DOMAIN served
    /\ served[<<r, l>>].kind = "response"
    /\ served[<<r, l>>].status # 200

\* ------------------------------------------------------------------- C1
\* C1: whenever a resource of the final map has an English language record,
\* the resource's title is that record's title, whatever was processed before
\* English, and the option of the rendered resource selector for that resource
\* shows that title.
C1_EnglishTitlePriority ==
    \A res \in Range(resources) :
        HasEnglish(res) =>
            /\ res.title = EnglishRecord(res).title
            /\ catalog_html.rendered =>
                 \A o \in Range(catalog_html.options) :
                     o.value = res.name => o.text = EnglishRecord(res).title

\* a finished run whose catalog lists a resource where a non-English record with
\* another title was processed before the English one
C1_Witness ==
    /\ pc = "done"
    /\ catalog_html.rendered
    /\ \E res \in Range(resources) :
         /\ Len(res.languages) >= 2
         /\ res.languages[1].code # "eng"
         /\ Truthy(res.languages[1].title)
         /\ res.languages[2].code = "eng"
         /\ res.languages[1].title # res.languages[2].title
         /\ \E o \in Range(catalog_html.options) : o.value = res.name

\* ------------------------------------------------------------------- C2
\* C2: a resource of the final map without an English record has the title of
\* the first language, in processing order, that produced a record.
C2_FirstSeenTitle ==
    \A res \in Range(resources) :
        ~HasEnglish(res) => res.title = res.languages[1].title


\* ------------------------------------------------------------------- C3
\* some language directory of repository r has a metadata document the
\* extraction accepts
ProducedRecord(r) ==
    /\ r \in DOMAIN listed
    /\ listed[r].status = "ok"
    /\ \E l \in Range(listed[r].order) : ServedOk(r, l) /\ MetadataTruthy(ServedDoc(r, l))

\* C3: once build_resource_data has returned, a repository of the listing is
\* a key of the final map if and only if one of its languages produced a
\* metadata record; its `languages` mapping is then non-empty, and the map has
\* no other keys.
C3_ExclusionRule ==
    BuildReturned =>
        /\ \A repo \in Range(repositories) :
              DictHas(resources, repo.name) <=> ProducedRecord(repo.name)
        /\ \A res \in Range(resources) :
              /\ res.languages # <<>>
              /\ \E repo \in Range(repositories) : repo.name = res.name

\* a returned build where one repository is kept and another, all of whose
\* language directories are without metadata, is left out
C3_Witness ==
    /\ BuildReturned
    /\ \E kept, dropped \in Range(repositories) :
         /\ DictHas(resources, kept.name)
         /\ ~DictHas(resources, dropped.name)
         /\ dropped.name \in DOMAIN listed
         /\ listed[dropped.name].status = "ok"
         /\ listed[dropped.name].order # <<>>

\* ------------------------------------------------------------------- C4
\* the record of language l held for repository r
RecordHeld(r, l) ==
    \E res \in HeldResources : res.name = r /\ DictHas(res.languages, l)
RecordOf(r, l) ==
    DictGet((CHOOSE res \in HeldResources :
                 res.name = r /\ DictHas(res.languages, l)).languages, l)

EnglishNotice(r) == Get(ResourceMeta(ServedDoc(r, "eng")).adaptation_notice)
OwnNotice(r, l) == Get(ResourceMeta(ServedDoc(r, l)).adaptation_notice)

\* C4: a non-English record whose metadata has the empty string as adaptation
\* notice, in a repository whose English metadata has a non-empty one, carries
\* the English notice.
C4_EmptyNoticeInherited ==
    \A r \in Range(RepoNames), l \in Langs \ {"eng"} :
        (/\ RecordHeld(r, l)
         /\ OwnNotice(r, l) = ""
         /\ ServedOk(r, "eng")
         /\ Truthy(EnglishNotice(r)))
        => RecordOf(r, l).citation.adaptation_notice = EnglishNotice(r)

\* a non-English record that inherited the English notice
C4_Witness ==
    \E r \in Range(RepoNames), l \in Langs \ {"eng"} :
        /\ RecordHeld(r, l)
        /\ OwnNotice(r, l) = ""
        /\ ServedOk(r, "eng")
        /\ RecordOf(r, l).citation.adaptation_notice = NoticeOf["eng"]

\* ------------------------------------------------------------------- C5
\* C5: a record whose metadata has no adaptation_notice field, in a repository
\* whose English metadata is available, carries the English record's notice.
C5_MissingNoticeInherited ==
    \A r \in Range(RepoNames), l \in Langs \ {"eng"} :
        (/\ RecordHeld(r, l)
         /\ ResourceMeta(ServedDoc(r, l)).adaptation_notice = Absent
         /\ ServedOk(r, "eng")
         /\ MetadataTruthy(ServedDoc(r, "eng")))
        => RecordOf(r, l).citation.adaptation_notice = EnglishNotice(r)

\* ------------------------------------------------------------------- C6
\* every repository of the listing was asked for its directories, and every
\* language directory for its metadata
AllProcessed ==
    \A repo \in Range(repositories) :
        /\ Req("contents", repo.name, "", "") \in Range(requests)
        /\ (repo.name \in DOMAIN listed /\ listed[repo.name].status = "ok") =>
              \A l \in Range(LanguageDirs(Contents(listed[repo.name].order))) :
                  Req("metadata", repo.name, l, "") \in Range(requests)

\* C6: a metadata request answered with a status other than 200 leaves that
\* language without a record and never ends the run: no HTTPError leaves
\* fetch_metadata, and a build that returns has processed every language of
\* every repository.
C6_NotFoundNonFatal ==
    /\ \A r \in Range(RepoNames), l \in Langs :
          ServedNotFound(r, l) => ~RecordHeld(r, l)
    /\ ~(pc = "raised" /\ error.where = "fetch_metadata" /\ error.exc = "HTTPError")
    /\ BuildReturned => AllProcessed

\* a finished run in which one language of a repository was answered 404,
\* another language of that repository has its record, and a later repository
\* is in the final map too
C6_Witness ==
    /\ pc = "done"
    /\ \E i, j \in 1..Len(repositories) :
         /\ i < j
         /\ repositories[i].name # repositories[j].name
         /\ DictHas(resources, repositories[i].name)
         /\ DictHas(resources, repositories[j].name)
         /\ \E l \in Range(listed[repositories[i].name].order) :
              ServedNotFound(repositories[i].name, l)

\* ------------------------------------------------------------------- C7
\* C7: no failure to obtain a language's metadata document ends the run.
C7_MetadataFailureNeverAborts ==
    ~(pc = "raised" /\ error.where = "fetch_metadata")

\* ------------------------------------------------------------------- C8
ListingFailed == Msg("Error retrieving repositories", "", "") \in console

\* C8: a failed repository-listing request is fatal: build_resource_data does
\* not return after it and no output file is written.
C8_ListingFailureFatal ==
    ListingFailed => (~BuildReturned /\ written = {})

\* ------------------------------------------------------------------- C9
\* C9: the English record's title is resource_metadata.title, or the
\* repository name when that is absent or empty; a non-English record's title
\* is aquifer_name, else title, else nothing, and never the repository name.
C9_RecordTitle ==
    \A r \in Range(RepoNames), l \in Langs :
        RecordHeld(r, l) =>
            LET rm == ResourceMeta(ServedDoc(r, l))
                t == RecordOf(r, l).title
            IN IF l = "eng"
               THEN t = (IF Truthy(Get(rm.title)) THEN rm.title ELSE r)
               ELSE /\ Truthy(Get(rm.aquifer_name)) => t = rm.aquifer_name
                    /\ (~Truthy(Get(rm.aquifer_name)) /\ Truthy(Get(rm.title))) => t = rm.title
                    /\ (~Truthy(Get(rm.aquifer_name)) /\ ~Truthy(Get(rm.title))) =>
                          (~Truthy(t) /\ t # r)

\* an English record titled with the repository name next to a non-English
\* record without any title
C9_Witness ==
    \E r \in Range(RepoNames), l \in Langs \ {"eng"} :
        /\ RecordHeld(r, "eng") /\ RecordOf(r, "eng").title = r
        /\ RecordHeld(r, l) /\ ~Truthy(RecordOf(r, l).title)

\* ------------------------------------------------------------------ C10
FirstLicense(rm) == rm.licenses.list[1]
HasLicenseMapping(rm) == rm.licenses.list # <<>> /\ FirstLicense(rm).is_dict

\* C10 as stated: the entry under the record's `code` is preferred, then the
\* "eng" entry, else license_name stays null.
C10_LicenseByRecordCode ==
    \A r \in Range(RepoNames), l \in Langs :
        RecordHeld(r, l) =>
            LET rm == ResourceMeta(ServedDoc(r, l))
                name == RecordOf(r, l).citation.license_name
            IN IF HasLicenseMapping(rm) /\ l \in FirstLicense(rm).keys
               THEN name = LicenseNameOf[l]
               ELSE IF HasLicenseMapping(rm) /\ "eng" \in FirstLicense(rm).keys
               THEN name = LicenseNameOf["eng"]
               ELSE name = None

\* C10 amended: the entry under the metadata's own `language` value ("eng" when
\* the field is absent) is preferred, then the "eng" entry, else license_name
\* stays null.
C10_LicenseByMetadataLanguage ==
    \A r \in Range(RepoNames), l \in Langs :
        RecordHeld(r, l) =>
            LET rm == ResourceMeta(ServedDoc(r, l))
                lang_code == IF rm.language = Absent THEN "eng" ELSE rm.language
                name == RecordOf(r, l).citation.license_name
            IN IF HasLicenseMapping(rm) /\ lang_code \in FirstLicense(rm).keys
               THEN name = LicenseNameOf[lang_code]
               ELSE IF HasLicenseMapping(rm) /\ "eng" \in FirstLicense(rm).keys
               THEN name = LicenseNameOf["eng"]
               ELSE name = None

\* a record whose metadata names its own language but whose first license has
\* only the "eng" entry, next to one that took the entry of its own language
C10_Witness ==
    \E r \in Range(RepoNames), l, m \in Langs \ {"eng"} :
        /\ RecordHeld(r, l)
        /\ ResourceMeta(ServedDoc(r, l)).language = l
        /\ HasLicenseMapping(ResourceMeta(ServedDoc(r, l)))
        /\ FirstLicense(ResourceMeta(ServedDoc(r, l))).keys = {"eng"}
        /\ RecordOf(r, l).citation.license_name = LicenseNameOf["eng"]
        /\ RecordHeld(r, m)
        /\ RecordOf(r, m).citation.license_name = LicenseNameOf[m]

\* ------------------------------------------------------------------ C11
\* no language record of the resource comes from metadata with a title or an
\* aquifer_name field
NoTitleAnywhere(res) ==
    \A i \in 1..Len(res.languages) :
        LET rm == ResourceMeta(ServedDoc(res.name, res.languages[i].code))
        IN rm.title = Absent /\ rm.aquifer_name = Absent

\* C11: a resource of the final map whose metadata supplies no title and no
\* aquifer_name in any language is titled with the repository name with a
\* space before each capital letter, trimmed.
C11_FallbackTitle ==
    \A res \in Range(resources) :
        NoTitleAnywhere(res) => res.title = Humanize(res.name)

\* ------------------------------------------------------------------ C12
\* the entries of the upstream listing that are excluded by name or archived
Barred == {e \in Range(upstream) : e.name \in EXCLUDED_REPOS \/ e.archived}

\* C12: a repository of the listing that is excluded by name or archived is
\* never returned by fetch_repositories, never the subject of a per-repository
\* request, and never a key of the resource map.
C12_BarredNeverEnter ==
    \A e \in Barred :
        /\ \A repo \in Range(repositories) : repo.name # e.name
        /\ \A q \in Range(requests) : q[2] # e.name
        /\ ~DictHas(resources, e.name)
        /\ pc \in {"english_metadata", "next_lang"} => resource_data.name # e.name

\* a finished run over a listing with an excluded, an archived and a kept
\* repository, the kept one in the final map
C12_Witness ==
    /\ pc = "done"
    /\ \E e \in Barred : e.archived /\ e.name \notin EXCLUDED_REPOS
    /\ \E e \in Barred : e.name \in EXCLUDED_REPOS
    /\ resources # <<>>

\* ------------------------------------------------------------------ C13
\* the expected content-file directory pattern: a numbered content file under
\* json/; files under audio/timing/ and json/metadata.json do not match
ContentFilePattern(path) ==
    path \in {"json/001.content.json", "json/002.content.json"}

\* the ingredients that qualify as content files, in ingredient order
ContentFiles(metadata) ==
    SelectSeq(metadata.ingredients,
              LAMBDA info : /\ info.is_dict
                            /\ info.mimeType = "text/json"
                            /\ ContentFilePattern(info.path))

\* C13: first_json_path of a language record is the path of the first
\* ingredient, in ingredient order, that has the JSON mimeType and a path
\* matching the content-file pattern (never one under audio/timing/), and null
\* when no ingredient qualifies.
C13_FirstJsonPathIsContentFile ==
    \A r \in Range(RepoNames), l \in Langs :
        RecordHeld(r, l) =>
            LET files == ContentFiles(ServedDoc(r, l))
            IN RecordOf(r, l).first_json_path =
                   IF files = <<>> THEN None ELSE files[1].path

\* ------------------------------------------------------ label transformer
\* code -> full English name of the 66 Bible books
BIBLE_BOOKS ==
    [GEN |-> "Genesis", EXO |-> "Exodus", LEV |-> "Leviticus", NUM |-> "Numbers",
     DEU |-> "Deuteronomy", JOS |-> "Joshua", JDG |-> "Judges", RUT |-> "Ruth",
     EZR |-> "Ezra", NEH |-> "Nehemiah", EST |-> "Esther", JOB |-> "Job",
     PSA |-> "Psalms", PRO |-> "Proverbs", ECC |-> "Ecclesiastes",
     SNG |-> "Song of Songs", ISA |-> "Isaiah", JER |-> "Jeremiah",
     LAM |-> "Lamentations", EZK |-> "Ezekiel", DAN |-> "Daniel", HOS |-> "Hosea",
     JOL |-> "Joel", AMO |-> "Amos", OBA |-> "Obadiah", JON |-> "Jonah",
     MIC |-> "Micah", NAM |-> "Nahum", HAB |-> "Habakkuk", ZEP |-> "Zephaniah",
     HAG |-> "Haggai", ZEC |-> "Zechariah", MAL |-> "Malachi",
     MAT |-> "Matthew", MRK |-> "Mark", LUK |-> "Luke", JHN |-> "John",
     ACT |-> "Acts", ROM |-> "Romans", GAL |-> "Galatians", EPH |-> "Ephesians",
     PHP |-> "Philippians", COL |-> "Colossians", TIT |-> "Titus",
     PHM |-> "Philemon", HEB |-> "Hebrews", JAS |-> "James", JUD |-> "Jude",
     REV |-> "Revelation"]
    @@ ("1SA" :> "1 Samuel") @@ ("2SA" :> "2 Samuel")
    @@ ("1KI" :> "1 Kings") @@ ("2KI" :> "2 Kings")
    @@ ("1CH" :> "1 Chronicles") @@ ("2CH" :> "2 Chronicles")
    @@ ("1CO" :> "1 Corinthians") @@ ("2CO" :> "2 Corinthians")
    @@ ("1TH" :> "1 Thessalonians") @@ ("2TH" :> "2 Thessalonians")
    @@ ("1TI" :> "1 Timothy") @@ ("2TI" :> "2 Timothy")
    @@ ("1PE" :> "1 Peter") @@ ("2PE" :> "2 Peter")
    @@ ("1JN" :> "1 John") @@ ("2JN" :> "2 John") @@ ("3JN" :> "3 John")

\* str.upper() on the labels the model uses; the book codes are upper case
Upper(x) ==
    CASE x \in {"gen", "Gen"} -> "GEN"
      [] x = "1sa" -> "1SA"
      [] x = "rev" -> "REV"
      [] x = "xxx" -> "XXX"
      [] x = "unknown" -> "UNKNOWN"
      [] x = "a" -> "A"
      [] x = "b" -> "B"
      [] x = "z" -> "Z"
      [] x = "json/001.content.json" -> "JSON/001.CONTENT.JSON"
      [] x = "json/002.content.json" -> "JSON/002.CONTENT.JSON"
      [] x = "filename.json" -> "FILENAME.JSON"
      [] OTHER -> x

\* the label without a leading json/ directory
StripJsonPrefix(x) ==
    CASE x = "json/001.content.json" -> "001.content.json"
      [] x = "json/002.content.json" -> "002.content.json"
      [] x = "json/metadata.json" -> "metadata.json"
      [] OTHER -> x

\* the lookup with the code compared as given
get_bible_book_name_exact(code) ==
    IF code \in DOMAIN BIBLE_BOOKS THEN BIBLE_BOOKS[code] ELSE code

\* full name of a book code, compared case-insensitively; the argument itself
\* when it is no book code
get_bible_book_name(code) ==
    IF Upper(code) \in DOMAIN BIBLE_BOOKS THEN BIBLE_BOOKS[Upper(code)] ELSE code

\* the languages written in Roman script, among the languages of the model
ROMAN_SCRIPT_LANGUAGES == {"eng", "fra", "spa", "por", "swh", "ind", "nld"}
is_roman_script_language(lang_code) == lang_code \in ROMAN_SCRIPT_LANGUAGES

\* a policy that is not known is handled as "alphabetical"
transform_label_upper(raw, policy, lang_code) ==
    CASE policy = "canonical" -> get_bible_book_name(raw)
      [] policy = "monograph" -> StripJsonPrefix(raw)
      [] OTHER -> IF is_roman_script_language(lang_code) THEN Upper(raw) ELSE raw

\* transform_label(raw_label, order_policy, language_code)
transform_label(raw, policy, lang_code) ==
    CASE policy = "canonical" -> get_bible_book_name(raw)
      [] policy = "alphabetical" ->
           IF is_roman_script_language(lang_code) THEN Upper(raw) ELSE raw
      [] policy = "monograph" -> StripJsonPrefix(raw)
      [] OTHER -> raw

\* the calls of transform_label explored: every book code, spellings of codes
\* in other cases, tokens, paths and the empty label; the three policies, the
\* empty one, an unknown one and a missing `order`; Roman and other scripts
LabelInputs ==
    DOMAIN BIBLE_BOOKS \cup
    {"gen", "Gen", "1sa", "rev", "XXX", "xxx", "unknown", "a", "b", "z", "A",
     "json/001.content.json", "filename.json", ""}
OrderPolicies == {"canonical", "alphabetical", "monograph", "", "unknown", None}
LabelLangs == {"eng", "fra", "arb", "rus"}

InitLabel ==
    /\ token = FALSE
    /\ profile = "pipeline"
    /\ upstream = <<>>
    /\ MainEntry
    /\ raw_label \in LabelInputs
    /\ order_policy \in OrderPolicies
    /\ language_code \in LabelLangs
    /\ label = NotReturned
    /\ nav_metadata = <<>>
    /\ nav_resources = <<>>
    /\ catalog_resources = <<>>
    /\ nav_files = {}
    /\ nav_done = {}
    /\ json_metadata = NoneDoc
    /\ json_path = NotReturned
    /\ PageLoaded

\* label = transform_label(raw_label, order_policy, language_code)
TransformLabel ==
    /\ label = NotReturned
    /\ label' = transform_label(raw_label, order_policy, language_code)
    /\ UNCHANGED <<buildVars, pathVars, catalogVars, raw_label, order_policy, language_code, nav_metadata,
                   nav_resources, catalog_resources, nav_files, nav_done>>

NextLabel == TransformLabel
SpecLabel == InitLabel /\ [][NextLabel]_vars

\* ------------------------------------------------------------------ C14
KnownPolicies == {"canonical", "alphabetical", "monograph"}

\* C14: a call of transform_label changes nothing but its return value, and
\* with an order policy outside canonical, alphabetical and monograph (the
\* empty one included) it returns its label argument unchanged.
C14_UnknownPolicyIdentity ==
    [][label' # label =>
          /\ UNCHANGED <<buildVars, pathVars, catalogVars, raw_label, order_policy, language_code,
                         nav_metadata, nav_resources, catalog_resources, nav_files,
                         nav_done>>
          /\ order_policy \notin KnownPolicies => label' = raw_label]_vars

\* a call with the empty policy whose label the alphabetical policy would change
C14_Witness ==
    /\ label # NotReturned
    /\ order_policy = ""
    /\ is_roman_script_language(language_code)
    /\ raw_label = "a"

\* ------------------------------------------------------------------ C15
\* the spellings of a book code among the labels explored
Spellings(code) == {x \in LabelInputs : Upper(x) = code}

\* C15: under the canonical policy a label that spells one of the 66 book
\* codes in any case is returned as the book's full English name (GEN and gen
\* as Genesis, 1SA as 1 Samuel), and any other label is returned as given.
C15_CanonicalBookNames ==
    /\ Cardinality(DOMAIN BIBLE_BOOKS) = 66
    /\ (label # NotReturned /\ order_policy = "canonical") =>
         /\ \A code \in DOMAIN BIBLE_BOOKS :
               raw_label \in Spellings(code) => label = BIBLE_BOOKS[code]
         /\ raw_label \in {"GEN", "gen", "Gen"} => label = "Genesis"
         /\ raw_label \in {"1SA", "1sa"} => label = "1 Samuel"
         /\ (\A code \in DOMAIN BIBLE_BOOKS : raw_label \notin Spellings(code)) =>
               label = raw_label

\* a canonical call on a lower-case spelling of a book code
C15_Witness ==
    /\ label = "Genesis"
    /\ order_policy = "canonical"
    /\ raw_label = "gen"

\* ------------------------------------------- content files and nav files
\* a metadata document with resource_metadata.order and ingredients
OrderedDoc(order, ingredients) ==
    Doc(FALSE, TRUE, Absent, Absent, Absent, Absent, NoLicenses, ingredients)
    @@ [order |-> order]

NavIngredientLists ==
    { <<>>,
      <<Ingredient("json/001.content.json", "text/json", <<"a">>),
        Ingredient("json/002.content.json", "text/json", <<"b">>),
        Ingredient("usfm/01-GEN.usfm", "text/x-usfm", <<>>),
        Ingredient("audio/timing/01.json", "text/json", <<>>)>>,
      <<Ingredient("json/001.content.json", "text/json", <<>>),
        Ingredient("json/002.content.json", "text/json", <<>>)>>,
      <<Ingredient("json/001.content.json", "text/json", <<"GEN">>),
        Ingredient("json/002.content.json", "text/json", <<"1SA">>)>>,
      <<Ingredient("json/002.content.json", "text/json", <<"gen", "EXO">>),
        Ingredient("json/001.content.json", "text/json", <<>>)>>,
      <<Ingredient("json/001.content.json", "text/json", <<"filename.json">>)>>,
      <<Ingredient("audio/timing/01.json", "text/json", <<>>),
        Ingredient("json/metadata.json", "text/json", <<>>)>> }

NavPolicies == {Absent, "canonical", "alphabetical", "monograph"}
NavDocs ==
    {NoneDoc, EmptyDoc}
    \cup {OrderedDoc(o, ing) : o \in NavPolicies, ing \in NavIngredientLists}

\* the languages of the sample resource, in processing order
NavLangs == <<"eng", "arb">>
NavResource == RepoNames[1]

\* raw label of an ingredient: the first key of its scope, else its path
RawLabel(info) == IF info.scope # <<>> THEN info.scope[1] ELSE info.path

\* every raw label is the ingredient's path
get_json_files_with_labels_by_path(metadata, lang_code) ==
    IF ~MetadataTruthy(metadata) THEN <<>>
    ELSE LET files == ContentFiles(metadata)
             order == Get(metadata.order)
         IN [i \in 1..Len(files) |->
                [path |-> files[i].path,
                 label |-> transform_label(files[i].path, order, lang_code)]]

\* get_json_files_with_labels(metadata, lang_code): the {path, label} pairs of
\* the content files, in ingredient order
get_json_files_with_labels(metadata, lang_code) ==
    IF ~MetadataTruthy(metadata) THEN <<>>
    ELSE LET files == ContentFiles(metadata)
             order == Get(metadata.order)
         IN [i \in 1..Len(files) |->
                [path |-> files[i].path,
                 label |-> transform_label(RawLabel(files[i]), order, lang_code)]]

\* the language record of the extended build, with its content files
NavLanguageRecord(lang, metadata) ==
    LET json_files == get_json_files_with_labels(metadata, lang)
    IN [code |-> lang,
        name |-> get_language_name(lang),
        first_json_path |-> IF json_files = <<>> THEN None ELSE json_files[1].path,
        json_files |-> json_files]

\* the resource map built from the documents: a record per language with a
\* truthy document, no resource without a record
NavResources(docs) ==
    LET with == SelectSeq(NavLangs, LAMBDA l : MetadataTruthy(docs[l]))
        res == [name |-> NavResource, title |-> Humanize(NavResource),
                languages |-> [i \in 1..Len(with) |->
                                  NavLanguageRecord(with[i], docs[with[i]])]]
    IN IF with = <<>> THEN <<>> ELSE <<res>>

\* a record without the named field
Without(rec, field) == [f \in DOMAIN rec \ {field} |-> rec[f]]

\* the records of the argument lose their json_files as well
get_catalog_resources_shallow(res_map) ==
    LET strip(res) == [res EXCEPT !.languages =
                          [i \in 1..Len(res.languages) |->
                              Without(res.languages[i], "json_files")]]
        stripped == [i \in 1..Len(res_map) |-> strip(res_map[i])]
    IN [argument |-> stripped, returned |-> stripped]

\* get_catalog_resources(resources): a deep copy whose language records have
\* no json_files; `argument` is the caller's map after the call
get_catalog_resources(res_map) ==
    LET strip(res) == [res EXCEPT !.languages =
                          [i \in 1..Len(res.languages) |->
                              Without(res.languages[i], "json_files")]]
    IN [argument |-> res_map,
        returned |-> [i \in 1..Len(res_map) |-> strip(res_map[i])]]

NavPath(resource_name, lang_code) == <<"nav/", resource_name, "_", lang_code, ".json">>

\* a nav file per language record, whatever its json_files, holding the paths
generate_nav_files_paths_only(res_map) ==
    UNION { { [path |-> NavPath(res.name, rec.code),
               content |-> [i \in 1..Len(rec.json_files) |-> rec.json_files[i].path]]
              : rec \in Range(res.languages) }
            : res \in Range(res_map) }

\* generate_nav_files(resources, output_dir): the files written under nav/
generate_nav_files(res_map) ==
    UNION { { [path |-> NavPath(res.name, rec.code), content |-> rec.json_files]
              : rec \in {r \in Range(res.languages) : r.json_files # <<>>} }
            : res \in Range(res_map) }

InitNav ==
    /\ token = FALSE
    /\ profile = "pipeline"
    /\ upstream = <<>>
    /\ MainEntry
    /\ raw_label = ""
    /\ order_policy = ""
    /\ language_code = ""
    /\ label = NotReturned
    /\ nav_metadata \in [Range(NavLangs) -> NavDocs]
    /\ nav_resources = <<>>
    /\ catalog_resources = <<>>
    /\ nav_files = {}
    /\ nav_done = {}
    /\ json_metadata = NoneDoc
    /\ json_path = NotReturned
    /\ PageLoaded

\* the resource map is built
BuildNavResources ==
    /\ "build" \notin nav_done
    /\ nav_resources' = NavResources(nav_metadata)
    /\ nav_done' = nav_done \cup {"build"}
    /\ UNCHANGED <<buildVars, pathVars, catalogVars, raw_label, order_policy, language_code, label,
                   nav_metadata, catalog_resources, nav_files>>

\* catalog_resources = get_catalog_resources(resources)
GetCatalogResources ==
    /\ "build" \in nav_done
    /\ "catalog" \notin nav_done
    /\ LET call == get_catalog_resources(nav_resources)
       IN /\ nav_resources' = call.argument
          /\ catalog_resources' = call.returned
    /\ nav_done' = nav_done \cup {"catalog"}
    /\ UNCHANGED <<buildVars, pathVars, catalogVars, raw_label, order_policy, language_code, label,
                   nav_metadata, nav_files>>

\* generate_nav_files(resources, output_dir)
GenerateNavFiles ==
    /\ "build" \in nav_done
    /\ "nav" \notin nav_done
    /\ nav_files' = generate_nav_files(nav_resources)
    /\ nav_done' = nav_done \cup {"nav"}
    /\ UNCHANGED <<buildVars, pathVars, catalogVars, raw_label, order_policy, language_code, label,
                   nav_metadata, nav_resources, catalog_resources>>

NextNav ==
    \/ BuildNavResources
    \/ GetCatalogResources
    \/ GenerateNavFiles
SpecNav == InitNav /\ [][NextNav]_vars

\* ------------------------------------------------------------------ C16
\* the language records of the map built from the sample documents
NavRecords == UNION {Range(res.languages) : res \in Range(nav_resources)}

\* C16: the label of each selected ingredient is the transformed first key of
\* its scope when the scope has a key, else its transformed path; under the
\* monograph policy an empty scope with the path json/001.content.json gives
\* 001.content.json, and a raw label without the json/ prefix is kept.
C16_LabelDerivation ==
    \A rec \in NavRecords :
        LET doc == nav_metadata[rec.code]
            files == ContentFiles(doc)
        IN /\ Len(rec.json_files) = Len(files)
           /\ \A i \in 1..Len(files) :
                /\ rec.json_files[i].path = files[i].path
                /\ rec.json_files[i].label =
                     transform_label(IF Len(files[i].scope) > 0 THEN files[i].scope[1]
                                     ELSE files[i].path, Get(doc.order), rec.code)
                /\ doc.order = "monograph" =>
                     /\ (files[i].scope = <<>> /\ files[i].path = "json/001.content.json")
                            => rec.json_files[i].label = "001.content.json"
                     /\ files[i].scope = <<"filename.json">>
                            => rec.json_files[i].label = "filename.json"

\* a record of a monograph resource whose ingredients have an empty scope, and
\* a record whose label comes from the scope
C16_Witness ==
    /\ \E rec \in NavRecords :
         /\ rec.json_files # <<>>
         /\ nav_metadata[rec.code].order = "monograph"
         /\ nav_metadata[rec.code].ingredients[1].scope = <<>>
         /\ rec.json_files[1].label = "001.content.json"
    /\ \E rec \in NavRecords :
         /\ rec.json_files # <<>>
         /\ rec.json_files[1].label = "Genesis"

\* ------------------------------------------------------------------ C17
\* `copy` is `original` with json_files taken out of every language record and
\* every other field as it was
ProjectionOf(copy, original) ==
    /\ Len(copy) = Len(original)
    /\ \A i \in 1..Len(original) :
         /\ DOMAIN copy[i] = DOMAIN original[i]
         /\ \A f \in DOMAIN original[i] \ {"languages"} : copy[i][f] = original[i][f]
         /\ Len(copy[i].languages) = Len(original[i].languages)
         /\ \A k \in 1..Len(original[i].languages) :
              LET c == copy[i].languages[k]
                  o == original[i].languages[k]
              IN /\ "json_files" \notin DOMAIN c
                 /\ DOMAIN c = DOMAIN o \ {"json_files"}
                 /\ \A f \in DOMAIN c : c[f] = o[f]

\* C17: the map returned for the catalog payload has no json_files in any
\* language record and every other field, first_json_path included, as in the
\* resource map, and the resource map itself is as before the call, json_files
\* included.
C17_CatalogProjection ==
    [][("catalog" \in nav_done' /\ "catalog" \notin nav_done) =>
          /\ ProjectionOf(catalog_resources', nav_resources)
          /\ nav_resources' = nav_resources
          /\ \A res \in Range(nav_resources') : \A rec \in Range(res.languages) :
                "json_files" \in DOMAIN rec]_vars

\* the projection of a map with a record that has content files
C17_Witness ==
    /\ "catalog" \in nav_done
    /\ catalog_resources # <<>>
    /\ \E rec \in NavRecords : Len(rec.json_files) = 2 /\ rec.first_json_path # None

\* ------------------------------------------------------------------ C18
\* C18: once the nav files are written, every language record with json_files
\* has exactly one file nav/<Resource>_<lang>.json, holding that record's
\* {path, label} entries in their order, and there is no other nav file.
C18_NavFiles ==
    "nav" \in nav_done =>
        /\ \A res \in Range(nav_resources) : \A rec \in Range(res.languages) :
              rec.json_files # <<>> =>
                 /\ Cardinality({f \in nav_files : f.path = NavPath(res.name, rec.code)}) = 1
                 /\ \A f \in nav_files :
                       f.path = NavPath(res.name, rec.code) => f.content = rec.json_files
        /\ \A f \in nav_files :
              \E res \in Range(nav_resources) : \E rec \in Range(res.languages) :
                  f.path = NavPath(res.name, rec.code) /\ rec.json_files # <<>>

\* nav files written for two languages, a third record having no content file
C18_Witness ==
    /\ "nav" \in nav_done
    /\ \E f, g \in nav_files : f.path # g.path /\ Len(f.content) = 2

\* ------------------------------------------------------------------ C20
Artifacts == {"resources_data.yaml", "index.html", "catalog.html"}
Reported == Msg("Build complete!", "", "") \in console

\* C20: the completion report is printed only after all three artifacts were
\* written in the run, and a run that can take no further step has either
\* reported completion or ended with a propagated exception and no report.
C20_CompleteOnlyWithAllArtifacts ==
    /\ Reported => (written = Artifacts /\ error = NoError)
    /\ pc = "report" => written = Artifacts
    /\ ~ENABLED Next =>
         \/ pc = "done" /\ Reported
         \/ pc \in {"raised", "exit"} /\ error # NoError /\ ~Reported

\* a run ended by an exception of the rendering after two artifacts were written
C20_Witness ==
    /\ pc = "raised"
    /\ error.where = "generate_catalog_html"
    /\ written = {"resources_data.yaml", "index.html"}
    /\ ~Reported

\* ------------------------------------------------------------------ C21
\* C21: a rate-limit check that got its answer follows a listing request (the
\* one answered 403), is followed by one more request for the same listing
\* page, and does not end the run.
C21_RateLimitRetry ==
    Msg("Error checking rate limit", "", "") \notin console =>
    /\ error.where # "check_rate_limit"
    /\ \A i \in 1..Len(requests) :
          requests[i][1] = "rate_limit" =>
             /\ i > 1
             /\ requests[i - 1][1] = "repos"
             /\ i < Len(requests)
             /\ requests[i + 1] = requests[i - 1]

\* ------------------------------------------------------------------ C22
\* C22: without a token (debug mode is off) main ends with exit status 1, and
\* no request is issued and no output file written in that run.
C22_TokenGate ==
    ~token =>
        /\ pc \in {"main", "exit"}
        /\ pc = "exit" => error = [exc |-> "SystemExit(1)", where |-> "main"]
        /\ requests = <<>>
        /\ written = {}

\* the run ended at the token gate
C22_Witness ==
    /\ ~token
    /\ pc = "exit"
    /\ ~ENABLED Next

\* ------------------------------------------------------------------ C23
\* C23: while one repository is aggregated, a `title` key that is present is
\* never written again: not by a language processed afterwards, and not by
\* the block after the loop that puts the record into the map.
C23_TitleSetOnce ==
    [][(pc = "next_lang" /\ resource_data.title # NoKey) =>
          /\ resource_data'.title = resource_data.title
          /\ resources' # resources =>
                DictGet(resources', resource_data.name).title = resource_data.title]_vars

\* English came first and set the title, a second language with metadata was
\* processed after it, and the record went into the map
C23_Witness ==
    /\ pc = "next_repo"
    /\ resource_data # NoResource
    /\ Len(resource_data.languages) = 2
    /\ resource_data.languages[1].code = "eng"
    /\ resource_data.languages[2].title # resource_data.languages[1].title
    /\ DictHas(resources, resource_data.name)
    /\ DictGet(resources, resource_data.name).title = resource_data.languages[1].title

\* ------------------------------------------- get_first_json_path, called
\* the ingredients a document handed to get_first_json_path may list
JsonIngredients ==
    { Ingredient("json/001.content.json", "text/json", <<>>),
      Ingredient("json/002.content.json", "text/json", <<>>),
      Ingredient("usfm/01-GEN.usfm", "text/x-usfm", <<>>),
      Ingredient("md/001.md", "text/markdown", <<>>),
      BareIngredient("json/003.content.json") }

\* ingredient mappings of at most n entries: a mapping has no key twice
IngredientMaps(n) ==
    UNION { { seq \in [1..k -> JsonIngredients] :
                \A i, j \in 1..k : seq[i] = seq[j] => i = j } : k \in 0..n }

\* the arguments of the calls: None, {} and the documents with such mappings
JsonPathInputs ==
    {NoneDoc, EmptyDoc}
    \cup { Doc(FALSE, TRUE, Absent, Absent, Absent, Absent, NoLicenses, ing) :
             ing \in IngredientMaps(MaxIngredients) }

InitFirstJson ==
    /\ token = FALSE
    /\ profile = "pipeline"
    /\ upstream = <<>>
    /\ MainEntry
    /\ raw_label = ""
    /\ order_policy = ""
    /\ language_code = ""
    /\ label = NotReturned
    /\ nav_metadata = <<>>
    /\ nav_resources = <<>>
    /\ catalog_resources = <<>>
    /\ nav_files = {}
    /\ nav_done = {}
    /\ json_metadata \in JsonPathInputs
    /\ json_path = NotReturned
    /\ PageLoaded

\* result = get_first_json_path(metadata)
GetFirstJsonPath ==
    /\ json_path = NotReturned
    /\ json_path' = get_first_json_path(json_metadata)
    /\ UNCHANGED <<buildVars, callVars, catalogVars, json_metadata>>

NextFirstJson == GetFirstJsonPath
SpecFirstJson == InitFirstJson /\ [][NextFirstJson]_vars

\* ------------------------------------------------------------------ C25
\* C25: get_first_json_path returns None for None, for the empty document and
\* for a document none of whose ingredients has the mimeType text/json;
\* otherwise it returns the path of the ingredient with that mimeType that no
\* other such ingredient precedes.
C25_FirstJsonPath ==
    json_path # NotReturned =>
        LET ing == json_metadata.ingredients
            hits == {i \in 1..Len(ing) : ing[i].mimeType = "text/json"}
        IN IF json_metadata.none \/ json_metadata.empty \/ hits = {}
           THEN json_path = None
           ELSE \E i \in hits : /\ json_path = ing[i].path
                                /\ \A j \in hits : i <= j

\* a call returned the path of a text/json ingredient that is not the first
\* entry of the mapping
C25_Witness ==
    /\ json_path \notin {NotReturned, None}
    /\ json_metadata.ingredients[1].mimeType # "text/json"
    /\ json_metadata.ingredients[1].path # json_path

\* ------------------------------------------------------------------ C26
\* the requests of main() before build_resource_data looks at a repository:
\* fetch_readme's and those of fetch_repositories
ListingPhase == {"readme", "repos", "rate_limit"}

\* the requests issued for the repositories, in the order issued
RepoRequests ==
    SelectSeq(requests, LAMBDA q : q[1] \notin ListingPhase)

\* the metadata of <r>/<l> was obtained: a truthy document came back
Obtained(r, l) == ServedOk(r, l) /\ MetadataTruthy(ServedDoc(r, l))

\* the requests one language of a repository calls for
LanguageRequests(r, l) ==
    <<Req("metadata", r, l, "")>>
    \o (IF Obtained(r, l)
        THEN <<Req("probe", r, l, "json"), Req("probe", r, l, "md"),
               Req("probe", r, l, "pdf"), Req("probe", r, l, "docx"),
               Req("probe", r, l, "usx"), Req("probe", r, l, "usfm"),
               Req("probe", r, l, "audio")>>
        ELSE <<>>)

RECURSIVE LanguagesRequests(_, _, _)
LanguagesRequests(r, langs, i) ==
    IF i > Len(langs) THEN <<>>
    ELSE LanguageRequests(r, langs[i]) \o LanguagesRequests(r, langs, i + 1)

\* the requests one repository calls for, given what its directory listing
\* answered
RepositoryRequests(r) ==
    LET langs == IF r \in DOMAIN listed /\ listed[r].status = "ok"
                 THEN LanguageDirs(Contents(listed[r].order)) ELSE <<>>
    IN <<Req("contents", r, "", "")>>
       \o (IF langs = <<>> THEN <<>>
           ELSE <<Req("metadata", r, "eng", "")>> \o LanguagesRequests(r, langs, 1))

RECURSIVE ExpectedRequests(_)
ExpectedRequests(i) ==
    IF i > Len(repositories) THEN <<>>
    ELSE RepositoryRequests(repositories[i].name) \o ExpectedRequests(i + 1)

IsPrefix(s, t) == Len(s) <= Len(t) /\ s = SubSeq(t, 1, Len(s))

\* C26: the requests of build_resource_data come in one fixed order. Every
\* request of the repository listing precedes every request about a
\* repository; the requests about the repositories are, repository by
\* repository in listing order: the language listing, then (when it names a
\* language) the English metadata, then per language in directory order its
\* metadata followed, exactly when that metadata was obtained, by the probes
\* json, md, pdf, docx, usx, usfm, audio. A run that is cut short has issued a
\* prefix of that sequence, a build that returned has issued all of it.
C26_CallOrdering ==
    /\ \A i, j \in 1..Len(requests) :
          (requests[i][1] \in {"repos", "rate_limit"} /\ requests[j][1] \notin ListingPhase)
             => i < j
    /\ IsPrefix(RepoRequests, ExpectedRequests(1))
    /\ BuildReturned => RepoRequests = ExpectedRequests(1)

\* a build returned after two repositories, the first with two languages of
\* which one gave metadata and the other did not
C26_Witness ==
    /\ BuildReturned
    /\ Len(repositories) = 2
    /\ \E l1, l2 \in Langs :
          /\ l1 # l2
          /\ Obtained(repositories[1].name, l1)
          /\ <<repositories[1].name, l2>> \in DOMAIN served
          /\ ~Obtained(repositories[1].name, l2)
          /\ Req("metadata", repositories[1].name, l2, "") \in Range(requests)
    /\ Req("contents", repositories[2].name, "", "") \in Range(requests)

\* ------------------------------------------------------------------ C27
\* C27: a record in the resource map has the keys name, description, url,
\* languages and title and no other: the title key is present and the
\* `_temp_title` key is not, whatever the order of the languages and whichever
\* of them gave metadata.
C27_RecordFields ==
    \A rec \in Range(resources) :
        /\ DOMAIN rec = {"name", "description", "url", "languages", "title", "temp_title"}
        /\ rec.title # NoKey
        /\ rec.temp_title = NoKey

\* a record is in the map whose first language record is not English and whose
\* second is: the temporary slot was filled before English set the title
C27_Witness ==
    \E rec \in Range(resources) :
        /\ Len(rec.languages) = 2
        /\ rec.languages[1].code # "eng"
        /\ rec.languages[2].code = "eng"
        /\ rec.title = rec.languages[2].title

\* ------------------------------------------------------------------ C28
\* the listing requests issued so far, in order
PageRequests == SelectSeq(requests, LAMBDA q : q[1] = "repos")

\* fetch_repositories has returned its list to build_resource_data
FetchReturned == pc \in {"next_repo", "english_metadata", "next_lang"} \/ BuildReturned

\* the entries of listing pages 1..n, in listing order
RECURSIVE PagesFetched(_)
PagesFetched(n) ==
    IF n = 0 THEN <<>> ELSE PagesFetched(n - 1) \o ListingPage(upstream, n)

\* C28: fetch_repositories requests the listing pages 1, 2, 3, ... in order,
\* stops after the first page that is empty or shorter than per_page, and
\* returns, in listing order, exactly the entries of the pages it fetched that
\* are neither excluded nor archived.
C28_Pagination ==
    /\ \A i \in 1..Len(PageRequests) : PageRequests[i][4] = ToString(i)
    /\ FetchReturned =>
          LET n == Len(PageRequests) IN
          /\ n >= 1
          /\ \A p \in 1..(n - 1) : Len(ListingPage(upstream, p)) = PerPage
          /\ Len(ListingPage(upstream, n)) < PerPage
          /\ repositories = FilterRepos(PagesFetched(n))

\* ===================================================================
\* The catalog page: the script of catalog.html in the browser
\* ===================================================================
\* one language record as the page reads it
PageLanguage(code, path, has_json) ==
    [code |-> code, name |-> get_language_name(code),
     first_json_path |-> path, has_json |-> has_json]

\* const RESOURCES_DATA = {{ resources_json }}: a map as the build produces
\* it, one resource with English listed after Spanish, one without English
\* whose directory order is not the order of the language names
RESOURCES_DATA ==
    [UWTranslationNotes |->
        [name |-> "UWTranslationNotes",
         languages |-> <<PageLanguage("spa", "json/001.content.json", TRUE),
                         PageLanguage("eng", "json/001.content.json", TRUE)>>],
     FIAMaps |->
        [name |-> "FIAMaps",
         languages |-> <<PageLanguage("spa", "json/001.content.json", TRUE),
                         PageLanguage("fra", None, TRUE),
                         PageLanguage("arb", "json/001.content.json", FALSE)>>]]

\* a.name.localeCompare(b.name) < 0 for the names of LANGUAGE_MAP
NameBefore(a, b) ==
    LET rank == [Arabic |-> 1, English |-> 2, French |-> 3, Spanish |-> 4]
    IN rank[a] < rank[b]

\* Object.values(selectedResource.languages).sort(by name)
SortByName(langs) ==
    [i \in 1..Len(langs) |->
        CHOOSE l \in Range(langs) :
            Cardinality({m \in Range(langs) : NameBefore(m.name, l.name)}) = i - 1]

\* the array the upstream file <repo>/<lang>/<path> holds
Articles(key) ==
    [of |-> key,
     n |-> CASE key[1] = "UWTranslationNotes" /\ key[2] = "eng" -> MaxArticles
             [] key[1] = "FIAMaps" -> 2
             [] OTHER -> 1]

\* the page's state as one value
PageState ==
    [selectedResource |-> selectedResource, selectedLanguage |-> selectedLanguage,
     previewCache |-> previewCache, currentArticleIndex |-> currentArticleIndex,
     currentArticles |-> currentArticles, resourceSelect |-> resourceSelect,
     languageSelect |-> languageSelect, contentDisplayDiv |-> contentDisplayDiv,
     contentViewerSection |-> contentViewerSection,
     previewDisplayDiv |-> previewDisplayDiv, activeTab |-> activeTab,
     prevArticleBtn |-> prevArticleBtn, nextArticleBtn |-> nextArticleBtn,
     articlePositionSpan |-> articlePositionSpan, fetches |-> fetches]

\* a handler has run to its end (or to its await) and left the page in state s
Becomes(s) ==
    /\ Len(s.fetches) <= MaxFetches
    /\ selectedResource' = s.selectedResource
    /\ selectedLanguage' = s.selectedLanguage
    /\ previewCache' = s.previewCache
    /\ currentArticleIndex' = s.currentArticleIndex
    /\ currentArticles' = s.currentArticles
    /\ resourceSelect' = s.resourceSelect
    /\ languageSelect' = s.languageSelect
    /\ contentDisplayDiv' = s.contentDisplayDiv
    /\ contentViewerSection' = s.contentViewerSection
    /\ previewDisplayDiv' = s.previewDisplayDiv
    /\ activeTab' = s.activeTab
    /\ prevArticleBtn' = s.prevArticleBtn
    /\ nextArticleBtn' = s.nextArticleBtn
    /\ articlePositionSpan' = s.articlePositionSpan
    /\ fetches' = s.fetches

ArticleShown(key, index) == [kind |-> "article", of |-> key, index |-> index]

Disabled(b) == IF b THEN "disabled" ELSE "enabled"

hideNavigation(s) ==
    [s EXCEPT !.prevArticleBtn = "disabled", !.nextArticleBtn = "disabled",
              !.articlePositionSpan = <<>>]

updateNavigationState(s) ==
    LET total == s.currentArticles.n
        current == s.currentArticleIndex + 1
    IN [s EXCEPT !.articlePositionSpan = <<"Article", current, "of", total>>,
                 !.prevArticleBtn = Disabled(s.currentArticleIndex = 0),
                 !.nextArticleBtn = Disabled(s.currentArticleIndex >= total - 1)]

\* every article of the upstream files has content; an index past the end
\* gives `undefined`
displayArticle(s) ==
    IF s.currentArticles.n = 0
    THEN [hideNavigation(s) EXCEPT !.previewDisplayDiv = Message("No articles available.")]
    ELSE IF s.currentArticleIndex >= s.currentArticles.n
    THEN updateNavigationState(
            [s EXCEPT !.previewDisplayDiv = Message("Article content not available.")])
    ELSE updateNavigationState(
            [s EXCEPT !.previewDisplayDiv =
                         ArticleShown(s.currentArticles.of, s.currentArticleIndex)])

resetArticleState(s) ==
    hideNavigation([s EXCEPT !.currentArticleIndex = 0, !.currentArticles = NoArticles])

\* loadPreview() up to its first await: the early returns, the cache hit, or
\* the request put in flight under its cache key
loadPreview(s) ==
    IF Falsy(s.selectedResource) \/ Falsy(s.selectedLanguage)
    THEN [hideNavigation(s) EXCEPT
            !.previewDisplayDiv = Message("Select a resource to see a preview.")]
    ELSE LET langs == RESOURCES_DATA[s.selectedResource].languages IN
         IF ~DictHas(langs, s.selectedLanguage)
         THEN [hideNavigation(s) EXCEPT
                 !.previewDisplayDiv = Message("No preview available for this selection.")]
         ELSE LET langData == DictGet(langs, s.selectedLanguage)
                  jsonPath == langData.first_json_path
                  cacheKey == <<s.selectedResource, s.selectedLanguage, jsonPath>>
              IN IF Falsy(jsonPath) \/ ~langData.has_json
                 THEN [hideNavigation(s) EXCEPT
                         !.previewDisplayDiv = Message("No preview available.")]
                 ELSE IF cacheKey \in s.previewCache
                 THEN displayArticle([s EXCEPT !.currentArticles = Articles(cacheKey),
                                               !.currentArticleIndex = 0])
                 ELSE [hideNavigation(s) EXCEPT
                         !.previewDisplayDiv = Message("Loading preview..."),
                         !.fetches = Append(@, cacheKey)]

\* the rest of loadPreview() with the index left where it is
loadPreviewResumeKeepIndex(s, cacheKey, outcome) ==
    CASE outcome = "articles" ->
           displayArticle([s EXCEPT !.currentArticles = Articles(cacheKey),
                                    !.previewCache = @ \cup {cacheKey}])
      [] outcome = "empty" ->
           [hideNavigation(s) EXCEPT
              !.previewDisplayDiv = Message("No preview content found in the JSON file.")]
      [] OTHER ->
           [hideNavigation(s) EXCEPT !.previewDisplayDiv = Message("Error loading preview.")]

\* the rest of loadPreview() once the fetch is answered: a non-empty array,
\* another JSON value, or a failure (not ok, network error, bad JSON)
loadPreviewResume(s, cacheKey, outcome) ==
    CASE outcome = "articles" ->
           displayArticle([s EXCEPT !.currentArticles = Articles(cacheKey),
                                    !.previewCache = @ \cup {cacheKey},
                                    !.currentArticleIndex = 0])
      [] outcome = "empty" ->
           [hideNavigation(s) EXCEPT
              !.previewDisplayDiv = Message("No preview content found in the JSON file.")]
      [] OTHER ->
           [hideNavigation(s) EXCEPT !.previewDisplayDiv = Message("Error loading preview.")]

switchToTab(s, tabId) ==
    LET t == [s EXCEPT !.activeTab = tabId]
    IN IF tabId = "preview" /\ ~Falsy(s.selectedResource) /\ ~Falsy(s.selectedLanguage)
       THEN loadPreview(t) ELSE t

displayLanguageMetadata(s) ==
    IF Falsy(s.selectedResource) \/ Falsy(s.selectedLanguage) THEN s
    ELSE IF ~DictHas(RESOURCES_DATA[s.selectedResource].languages, s.selectedLanguage)
    THEN [s EXCEPT !.contentDisplayDiv = [kind |-> "No metadata available", of |-> <<>>]]
    ELSE [s EXCEPT !.contentDisplayDiv = [kind |-> "metadata",
                                          of |-> <<s.selectedResource, s.selectedLanguage>>],
                   !.contentViewerSection = "shown"]

\* the option values of #language-select after the loop of handleResourceChange
LanguageOptions(sorted) == <<"">> \o [i \in 1..Len(sorted) |-> sorted[i].code]

\* the change handler of #resource-select
handleResourceChange(s) ==
    LET resourceId == s.resourceSelect IN
    IF resourceId = ""
    THEN resetArticleState(
            [s EXCEPT !.languageSelect = [options |-> <<"">>, value |-> "", disabled |-> TRUE],
                      !.contentDisplayDiv = NoContent,
                      !.previewDisplayDiv = Message("Select a resource to see a preview."),
                      !.contentViewerSection = "hidden"])
    ELSE LET sorted == SortByName(RESOURCES_DATA[resourceId].languages)
             hasEng == \E i \in 1..Len(sorted) : sorted[i].code = "eng"
             s1 == resetArticleState([s EXCEPT !.selectedResource = resourceId])
             s2 == [s1 EXCEPT !.languageSelect =
                                 [options |-> LanguageOptions(sorted),
                                  value |-> IF hasEng THEN "eng" ELSE "",
                                  disabled |-> FALSE]]
             s3 == [switchToTab(s2, "details") EXCEPT
                      !.previewDisplayDiv = Message("Loading preview...")]
         IN IF hasEng
            THEN displayLanguageMetadata([s3 EXCEPT !.selectedLanguage = "eng"])
            ELSE s3

\* the change handler of #language-select
handleLanguageChange(s) ==
    LET s1 == [s EXCEPT !.selectedLanguage = s.languageSelect.value] IN
    IF Falsy(s1.selectedLanguage)
    THEN resetArticleState(
            [s1 EXCEPT !.contentDisplayDiv = NoContent,
                       !.previewDisplayDiv = Message("Select a resource to see a preview."),
                       !.contentViewerSection = "hidden"])
    ELSE displayLanguageMetadata(
            [resetArticleState(switchToTab(s1, "details")) EXCEPT
                !.previewDisplayDiv = Message("Loading preview...")])

\* the click handlers of the navigation buttons
prevArticle(s) ==
    IF s.currentArticleIndex > 0
    THEN displayArticle([s EXCEPT !.currentArticleIndex = @ - 1]) ELSE s
nextArticle(s) ==
    IF s.currentArticleIndex < s.currentArticles.n - 1
    THEN displayArticle([s EXCEPT !.currentArticleIndex = @ + 1]) ELSE s

\* ---- what the user and the network do
\* the user picks another option of #resource-select
ChangeResource ==
    /\ \E v \in {""} \cup DOMAIN RESOURCES_DATA :
          /\ v # resourceSelect
          /\ Becomes(handleResourceChange([PageState EXCEPT !.resourceSelect = v]))
    /\ UNCHANGED <<buildVars, callVars, pathVars>>

\* the user picks another option of #language-select
ChangeLanguage ==
    /\ languageSelect.disabled = FALSE
    /\ \E v \in Range(languageSelect.options) :
          /\ v # languageSelect.value
          /\ Becomes(handleLanguageChange([PageState EXCEPT !.languageSelect.value = v]))
    /\ UNCHANGED <<buildVars, callVars, pathVars>>

\* the user clicks a tab button; the tabs are inside #content-viewer
ClickTab ==
    /\ contentViewerSection = "shown"
    /\ \E tabId \in {"details", "preview"} : Becomes(switchToTab(PageState, tabId))
    /\ UNCHANGED <<buildVars, callVars, pathVars>>

\* the user clicks Previous / Next: an enabled button of the visible tab
ClickPrev ==
    /\ contentViewerSection = "shown"
    /\ activeTab = "preview"
    /\ prevArticleBtn = "enabled"
    /\ Becomes(prevArticle(PageState))
    /\ UNCHANGED <<buildVars, callVars, pathVars>>
ClickNext ==
    /\ contentViewerSection = "shown"
    /\ activeTab = "preview"
    /\ nextArticleBtn = "enabled"
    /\ Becomes(nextArticle(PageState))
    /\ UNCHANGED <<buildVars, callVars, pathVars>>

\* one of the fetches in flight is answered and its loadPreview call resumes
FetchAnswered ==
    /\ \E i \in 1..Len(fetches), outcome \in {"articles", "empty", "failed"} :
          LET rest == [j \in 1..(Len(fetches) - 1) |->
                          IF j < i THEN fetches[j] ELSE fetches[j + 1]]
          IN Becomes(loadPreviewResume([PageState EXCEPT !.fetches = rest],
                                       fetches[i], outcome))
    /\ UNCHANGED <<buildVars, callVars, pathVars>>

InitCatalog ==
    /\ token = FALSE
    /\ profile = "pipeline"
    /\ upstream = <<>>
    /\ MainEntry
    /\ NoCalls
    /\ PageLoaded

NextCatalog ==
    \/ ChangeResource
    \/ ChangeLanguage
    \/ ClickTab
    \/ ClickPrev
    \/ ClickNext
    \/ FetchAnswered

SpecCatalog == InitCatalog /\ [][NextCatalog]_vars

\* ------------------------------------------------------------------ C24
\* C24: when the user selects a resource, the language pre-selected in the
\* language selector, stored in selectedLanguage and shown in the details is
\* English if the resource has an English record, and otherwise the first of
\* its languages in the order of their names; none only for a resource
\* without languages.
C24_DefaultLanguage ==
    [][(resourceSelect' # resourceSelect /\ resourceSelect' # "") =>
          LET sorted == SortByName(RESOURCES_DATA[resourceSelect'].languages)
              default == IF \E i \in 1..Len(sorted) : sorted[i].code = "eng" THEN "eng"
                         ELSE IF Len(sorted) > 0 THEN sorted[1].code ELSE ""
          IN /\ languageSelect'.value = default
             /\ default # "" =>
                   /\ selectedLanguage' = default
                   /\ contentDisplayDiv' =
                         [kind |-> "metadata", of |-> <<resourceSelect', default>>]]_vars

\* ------------------------------------------------------------------ C29
\* C29: whatever the interleaving of resource changes, language changes, tab
\* switches and answers to fetches in flight, the articles held in
\* currentArticles, and the article displayed, are those of the selected
\* resource and language.
C29_PreviewOfSelection ==
    /\ currentArticles # NoArticles =>
          /\ currentArticles.of[1] = selectedResource
          /\ currentArticles.of[2] = selectedLanguage
    /\ previewDisplayDiv.kind = "article" =>
          /\ previewDisplayDiv.of[1] = selectedResource
          /\ previewDisplayDiv.of[2] = selectedLanguage

\* ------------------------------------------------------------------ C30
\* C30: currentArticleIndex is never negative, is below the length of
\* currentArticles whenever that list is not empty, and is 0 whenever it is
\* empty.
C30_ArticleIndexBounds ==
    /\ currentArticleIndex >= 0
    /\ currentArticles.n > 0 => currentArticleIndex < currentArticles.n
    /\ currentArticles.n = 0 => currentArticleIndex = 0

\* Next was clicked up to the last article of the longest list while another
\* fetch was still in flight
C30_Witness ==
    /\ currentArticles.n = MaxArticles
    /\ currentArticleIndex = MaxArticles - 1
    /\ nextArticleBtn = "disabled"
    /\ fetches # <<>>

====
